---- MODULE Spec2Model ----
(***************************************************************************)
(* LR(1) parser generator and step-execution engine (lr1-visualizer).      *)
(*                                                                         *)
(* The pipeline of src/backend/parser is modelled leaves first:            *)
(*   Grammar (augmented, FIRST with memo caches)   grammar_v2.py           *)
(*   LR1Item / ItemSet (closure, goto)             items.py                *)
(*   Automaton (canonical collection, conflicts)   automaton.py            *)
(*   ParsingTable (ACTION / GOTO, conflicts)       table.py                *)
(*   ParserEngine (driver, trace, AST)             engine.py               *)
(*                                                                         *)
(* Python indices are kept 0-based: production index i is productions[i+1] *)
(* and state index s is states[s+1].  None is NoneInt for integer fields   *)
(* and NoneSym for symbol fields.                                          *)
(***************************************************************************)
EXTENDS Integers, Sequences, FiniteSets, TLC

VARIABLES
    pc,               \* position in the pipeline
    grammar_id,       \* which grammar text was given
    hash_seed,        \* iteration order of Python sets in this process
    productions,      \* Grammar.productions (augmented production first)
    start_symbol,     \* Grammar.start_symbol (the augmented symbol)
    first_cache,      \* Grammar._first_cache:    tuple of symbols -> set
    first_nt_cache,   \* Grammar._first_nt_cache: non-terminal -> set
    states,           \* Automaton.states
    transitions,      \* Automaton.transitions
    state_map,        \* Automaton.state_map
    worklist,         \* worklist of _build_automaton
    found_conflicts,  \* result of Automaton.find_conflicts
    table_index,      \* loop variable of ParsingTable._build_tables
    action_table,     \* ParsingTable.action_table
    goto_table,       \* ParsingTable.goto_table
    conflicts,        \* ParsingTable.conflicts
    engine,           \* "none", "ready" (constructed) or "failed" (ValueError)
    input_string,     \* the string given to parse, a sequence of characters
    stack,            \* ParseState.stack
    input_tokens,     \* ParseState.input_tokens
    input_pointer,    \* ParseState.input_pointer
    step_number,      \* ParseState.step_number
    ast_nodes,        \* ParseState.ast_nodes
    ast_stack,        \* ParseState.ast_stack
    next_node_id,     \* ParseState.next_node_id
    steps,            \* the trace built by _parse_tokens
    step_count,       \* step_count of _parse_tokens
    ast,              \* result of get_ast
    validation,       \* result of validate_input
    success,          \* "success" flag of parse_interactive
    action_export,    \* result of ParsingTable.export_action_table
    follow_cache,     \* Grammar._follow_cache: non-terminal -> set
    earlier_build,    \* states and transitions of an earlier Automaton
    first_in_progress,\* Grammar._first_in_progress
    threads           \* the threads that query the Grammar, each with its
                      \* call stack

vars == <<pc, grammar_id, hash_seed, productions, start_symbol, first_cache,
          first_nt_cache, states, transitions, state_map, worklist,
          found_conflicts, table_index, action_table, goto_table, conflicts,
          engine, input_string, stack, input_tokens, input_pointer, step_number,
          ast_nodes, ast_stack, next_node_id, steps, step_count, ast, validation,
          success, action_export, follow_cache, earlier_build,
          first_in_progress, threads>>

grammarVars == <<grammar_id, hash_seed, productions, start_symbol>>
automatonVars == <<states, transitions, state_map, worklist>>
tableVars == <<table_index, action_table, goto_table, conflicts>>
parseVars == <<input_string, stack, input_tokens, input_pointer, step_number,
               ast_nodes, ast_stack, next_node_id, steps, step_count>>
resultVars == <<ast, validation, success>>
threadVars == <<first_in_progress, threads>>
queryVars == <<action_export, follow_cache, earlier_build, threadVars>>

----------------------------------------------------------------------------
(* Bounds of the model.                                                    *)

\* Longest input (in tokens, the end marker not counted) given to parse.
MaxLen == 3

\* The set-iteration orders considered (0: ascending, 1: descending).
HashSeeds == {0, 1}

----------------------------------------------------------------------------
(* Symbols.                                                                *)

NoneInt == -1
NoneSym == "<None>"
Eps == "eps"          \* Symbol("ε", SymbolType.EPSILON)
EndMarker == "$"      \* Symbol("$", SymbolType.TERMINAL)
Unknown == "?"        \* a token that is no symbol of the grammar

\* Fixed order of all symbol names, used to order set iteration.
NameOrder == <<"$", "(", ")", "+", "*", "a", "b", "c", "d", "e", "f", "id", "t", "u",
               "w", "x", "y", "z", "A", "B", "C", "E", "F", "S", "T", "W",
               "X0", "X1", "X2", "X3", "Z", "E'", "S'", "eps">>

Rank(name) == CHOOSE i \in 1..Len(NameOrder) : NameOrder[i] = name

Range(s) == {s[i] : i \in 1..Len(s)}

Prod(l, r) == [lhs |-> l, rhs |-> r]

\* The grammar texts: user start symbol and rules in textual order.
GrammarTexts ==
    [G1 |-> [start |-> "E", rules |-> <<Prod("E", <<"E", "+", "T">>), Prod("E", <<"T">>),
                                        Prod("T", <<"T", "*", "F">>), Prod("T", <<"F">>),
                                        Prod("F", <<"(", "E", ")">>), Prod("F", <<"id">>)>>],
     GE |-> [start |-> "S", rules |-> <<Prod("S", <<"a">>), Prod("S", <<>>)>>],
     G2 |-> [start |-> "S", rules |-> <<Prod("S", <<"S", "S">>), Prod("S", <<"a">>)>>],
     G3 |-> [start |-> "S", rules |-> <<Prod("S", <<"A", "B">>),
                                        Prod("A", <<"a">>), Prod("A", <<>>),
                                        Prod("B", <<"b">>), Prod("B", <<>>)>>],
     G4 |-> [start |-> "S", rules |-> <<Prod("S", <<"A">>), Prod("S", <<"B">>),
                                        Prod("A", <<"a">>), Prod("B", <<"a">>)>>],
     G5 |-> [start |-> "S", rules |-> <<Prod("S", <<"(", "S", ")">>),
                                        Prod("S", <<"(", ")">>)>>],
     GM |-> [start |-> "S", rules |-> <<Prod("S", <<"E", "W">>), Prod("S", <<"F", "Z">>),
                                        Prod("E", <<"e">>), Prod("F", <<"f">>),
                                        Prod("W", <<"Z", "x">>), Prod("W", <<"w">>),
                                        Prod("Z", <<"W", "y">>), Prod("Z", <<"z">>)>>],
     GC |-> [start |-> "S", rules |-> <<Prod("S", <<"S", "S">>),
                                        Prod("S", <<"A">>), Prod("S", <<"B">>),
                                        Prod("A", <<"a">>), Prod("B", <<"a">>)>>],
     GL |-> [start |-> "S", rules |-> <<Prod("S", <<"X0", "X2">>),
                                        Prod("X0", <<"X1", "X1">>),
                                        Prod("X1", <<"X2", "X2">>),
                                        Prod("X2", <<>>)>>],
     GH |-> [start |-> "S", rules |-> <<Prod("S", <<"X0", "X2", "t", "u">>),
                                        Prod("X0", <<"X1", "X1">>),
                                        Prod("X1", <<"X2", "X2">>),
                                        Prod("X2", <<"X3", "X3">>),
                                        Prod("X3", <<>>)>>],
     GK |-> [start |-> "S", rules |-> <<Prod("S", <<"X0", "X2", "X2">>),
                                        Prod("X0", <<"X1", "X1">>),
                                        Prod("X1", <<"X2", "X2">>),
                                        Prod("X2", <<>>)>>],
     GF |-> [start |-> "S", rules |-> <<Prod("S", <<"A", "d">>), Prod("S", <<"B">>),
                                        Prod("A", <<"B">>),
                                        Prod("B", <<"A">>), Prod("B", <<"c">>)>>],
     GP |-> [start |-> "S", rules |-> <<Prod("S", <<"S'", "a">>),
                                        Prod("S'", <<"b">>)>>],
     GU |-> [start |-> "S", rules |-> <<Prod("S", <<"A">>),
                                        Prod("A", <<"B">>), Prod("A", <<"a">>),
                                        Prod("B", <<"C">>), Prod("C", <<"A">>)>>],
     GS |-> [start |-> "S", rules |-> <<Prod("S", <<"A">>),
                                        Prod("A", <<"A">>), Prod("A", <<"a">>)>>]]

GrammarIds == DOMAIN GrammarTexts

\* f"{start_symbol_name}'"
Primed(name) == IF name = "E" THEN "E'" ELSE "S'"

\* LarkGrammarTransformer.start: the augmented production is inserted at
\* index 0 and the Grammar is created with the augmented start symbol.
AugmentedProductions(text) ==
    <<Prod(Primed(text.start), <<text.start>>)>> \o text.rules

----------------------------------------------------------------------------
(* Grammar queries (grammar_v2.py).                                        *)

\* Names that appear as a left-hand side, the start symbols included: the
\* front end classifies exactly these as non-terminals.
NonTerminals == {productions[i].lhs : i \in 1..Len(productions)}
                   \cup {start_symbol}

is_non_terminal(symbol) == symbol \in NonTerminals

is_terminal(symbol) == symbol \notin NonTerminals /\ symbol # Eps

\* Grammar.terminals without the epsilon symbol.
Terminals == {EndMarker} \cup
    {s \in UNION {Range(productions[i].rhs) : i \in 1..Len(productions)} :
        is_terminal(s)}

\* The user start symbol S of the augmented production S' -> S.
UserStart == productions[1].rhs[1]

get_productions_for_symbol(symbol) ==
    SelectSeq(productions, LAMBDA p : p.lhs = symbol)

_has_epsilon_production(symbol) ==
    \E i \in 1..Len(productions) :
        productions[i].lhs = symbol /\ productions[i].rhs = <<>>

\* list.index: the 0-based index of the first equal production.
ProductionIndex(production) ==
    (CHOOSE i \in 1..Len(productions) :
        /\ productions[i] = production
        /\ \A j \in 1..(i - 1) : productions[j] # production) - 1

----------------------------------------------------------------------------
(* FIRST with memoization and the in-progress guard (grammar_v2.py).       *)
(* The caches are threaded through the computation as a record             *)
(*   c = [seq: _first_cache, nt: _first_nt_cache, prog: _first_in_progress]*)
(* and every query returns its result together with the updated caches.    *)

RECURSIVE first(_, _), firstLoop(_, _, _, _), firstLoopNonTerminal(_, _, _, _),
          _first_of_non_terminal(_, _), firstOfProductions(_, _, _, _),
          firstOfProductionsNext(_, _, _, _)

\* The end of Grammar.first: r is what the loop over the symbols left;
\* epsilon is added when every symbol can derive it, the result is cached.
firstStore(symbols, r) ==
    LET result == IF r.all_can_derive_epsilon
                  THEN r.res \cup {Eps} ELSE r.res
    IN [res |-> result,
        c |-> [r.c EXCEPT !.seq = (symbols :> result) @@ @]]

\* Grammar.first(symbols)
first(c, symbols) ==
    IF symbols \in DOMAIN c.seq
    THEN [res |-> c.seq[symbols], c |-> c]
    ELSE IF symbols = <<>>
    THEN [res |-> {}, c |-> [c EXCEPT !.seq = (symbols :> {}) @@ @]]
    ELSE firstStore(symbols, firstLoop(c, symbols, 1, {}))

\* The "for symbol in symbols" loop of Grammar.first, from position i on.
firstLoop(c, symbols, i, result) ==
    IF i > Len(symbols)
    THEN [res |-> result, c |-> c, all_can_derive_epsilon |-> TRUE]
    ELSE IF is_terminal(symbols[i])
    THEN [res |-> result \cup {symbols[i]}, c |-> c,
          all_can_derive_epsilon |-> FALSE]
    ELSE IF symbols[i] = Eps
    THEN firstLoop(c, symbols, i + 1, result)
    ELSE firstLoopNonTerminal(symbols, i, result,
                              _first_of_non_terminal(c, symbols[i]))

\* The non-terminal case of the loop: q is what _first_of_non_terminal
\* returned for symbols[i] (nt_first and the caches).
firstLoopNonTerminal(symbols, i, result, q) ==
    IF Eps \notin q.res /\ ~_has_epsilon_production(symbols[i])
    THEN [res |-> result \cup (q.res \ {Eps}), c |-> q.c,
          all_can_derive_epsilon |-> FALSE]
    ELSE firstLoop(q.c, symbols, i + 1, result \cup (q.res \ {Eps}))

\* The end of _first_of_non_terminal: the symbol is no longer in progress
\* and the set r.res is memoized.
firstMemoize(symbol, r) ==
    [res |-> r.res,
     c |-> [r.c EXCEPT !.prog = @ \ {symbol},
                       !.nt = (symbol :> r.res) @@ @]]

\* Grammar._first_of_non_terminal(symbol)
_first_of_non_terminal(c, symbol) ==
    IF symbol \in DOMAIN c.nt
    THEN [res |-> c.nt[symbol], c |-> c]
    ELSE IF symbol \in c.prog
    THEN [res |-> {}, c |-> c]
    ELSE firstMemoize(symbol,
             firstOfProductions([c EXCEPT !.prog = @ \cup {symbol}],
                                get_productions_for_symbol(symbol), 1, {}))

\* The "for production in ..." loop of _first_of_non_terminal.
firstOfProductions(c, prods, i, first_set) ==
    IF i > Len(prods)
    THEN [res |-> first_set, c |-> c]
    ELSE IF prods[i].rhs = <<>>
    THEN firstOfProductions(c, prods, i + 1, first_set \cup {Eps})
    ELSE firstOfProductionsNext(prods, i, first_set, first(c, prods[i].rhs))

\* first_set.update(seq_first), with q what self.first returned.
firstOfProductionsNext(prods, i, first_set, q) ==
    firstOfProductions(q.c, prods, i + 1, first_set \cup q.res)

\* The caches of the grammar as the record the queries thread.
Caches == [seq |-> first_cache, nt |-> first_nt_cache, prog |-> {}]

----------------------------------------------------------------------------
(* FOLLOW with memoization and the cycle guard (grammar_v2.py).  A query   *)
(* threads the record f = [cache: _follow_cache, prog:                     *)
(* _follow_in_progress, c: the caches of FIRST] and returns its result     *)
(* together with the updated record.                                       *)

\* name.replace("'", "") on the names used
StripPrimes(name) ==
    IF name = "S'" THEN "S" ELSE IF name = "E'" THEN "E" ELSE name

\* The places the two loops "for production in self.productions" and "for
\* i, rhs_symbol in enumerate(production.rhs)" find the symbol at, in the
\* order the loops visit them: pairs <<production, position>>.
rhs_positions(symbol) ==
    LET width == 1 + Cardinality(UNION {DOMAIN productions[p].rhs :
                                        p \in DOMAIN productions})
        grid == [k \in 1..(Len(productions) * width) |->
                    <<((k - 1) \div width) + 1, ((k - 1) % width) + 1>>]
    IN SelectSeq(grid,
           LAMBDA o : /\ o[2] \in DOMAIN productions[o[1]].rhs
                      /\ productions[o[1]].rhs[o[2]] = symbol)

RECURSIVE follow(_, _), followProductions(_, _, _, _, _),
          followRemaining(_, _, _, _, _, _), followLhs(_, _, _, _, _)

\* The end of Grammar.follow: the symbol is no longer in progress and the
\* set r.res is memoized.
followMemoize(symbol, r) ==
    [res |-> r.res,
     f |-> [r.f EXCEPT !.prog = @ \ {symbol},
                       !.cache = (symbol :> r.res) @@ @]]

\* Grammar.follow(symbol)
follow(f, symbol) ==
    IF symbol \in DOMAIN f.cache
    THEN [res |-> f.cache[symbol], f |-> f]
    ELSE IF symbol \in f.prog
    THEN [res |-> {}, f |-> f]
    ELSE followMemoize(symbol,
             followProductions(
                 [f EXCEPT !.prog = @ \cup {symbol}], symbol,
                 rhs_positions(symbol), 1,
                 IF symbol = start_symbol \/ symbol = StripPrimes(start_symbol)
                 THEN {EndMarker} ELSE {}))

\* The body of the two loops, "if rhs_symbol == symbol", from the k-th
\* place the symbol is found at on.
followProductions(f, symbol, found, k, follow_set) ==
    IF k > Len(found)
    THEN [res |-> follow_set, f |-> f]
    ELSE IF found[k][2] < Len(productions[found[k][1]].rhs)
    THEN followRemaining(f, symbol, found, k, follow_set,
             first(f.c, SubSeq(productions[found[k][1]].rhs, found[k][2] + 1,
                               Len(productions[found[k][1]].rhs))))
    ELSE followLhs(symbol, found, k, follow_set,
                   follow(f, productions[found[k][1]].lhs))

\* The case of remaining symbols: q is what self.first returned for them.
followRemaining(f, symbol, found, k, follow_set, q) ==
    IF Eps \in q.res
    THEN followLhs(symbol, found, k, follow_set \cup (q.res \ {Eps}),
                   follow([f EXCEPT !.c = q.c], productions[found[k][1]].lhs))
    ELSE followProductions([f EXCEPT !.c = q.c], symbol, found, k + 1,
                           follow_set \cup (q.res \ {Eps}))

\* follow_set.update(lhs_follow), with r what self.follow returned.
followLhs(symbol, found, k, follow_set, r) ==
    followProductions(r.f, symbol, found, k + 1, follow_set \cup r.res)

\* The caches of the grammar as the record the FOLLOW queries thread.
FollowCaches == [cache |-> follow_cache, prog |-> {}, c |-> Caches]

\* The caches of the grammar become those of the record f.
StoreFollow(f) ==
    /\ follow_cache' = f.cache
    /\ first_cache' = f.c.seq
    /\ first_nt_cache' = f.c.nt

\* A caller queries FOLLOW of a non-terminal on a grammar that no automaton
\* has been built from yet.
Follow ==
    /\ pc \in {"automaton_init", "follow"}
    /\ \E symbol \in NonTerminals \ DOMAIN follow_cache :
           StoreFollow(follow(FollowCaches, symbol).f)
    /\ pc' = "follow"
    /\ UNCHANGED <<grammarVars, automatonVars, found_conflicts, tableVars,
                   engine, parseVars, resultVars, action_export,
                   earlier_build, threadVars>>

----------------------------------------------------------------------------
(* LR(1) items and item sets (items.py).                                   *)

Item(production, dot_position, lookahead) ==
    [production |-> production, dot_position |-> dot_position,
     lookahead |-> lookahead]

is_complete(item) == item.dot_position >= Len(item.production.rhs)

symbol_after_dot(item) ==
    IF item.dot_position >= Len(item.production.rhs)
    THEN NoneSym
    ELSE item.production.rhs[item.dot_position + 1]

\* item.beta[1:], the symbols after the symbol that follows the dot
BetaTail(item) ==
    SubSeq(item.production.rhs, item.dot_position + 2,
           Len(item.production.rhs))

advance_dot(item) == [item EXCEPT !.dot_position = @ + 1]

\* Python iterates a set in hash order, which differs from process to
\* process.  hash_seed selects the order: ascending or descending in a key.
ItemKey(item) ==
    (ProductionIndex(item.production) * 8 + item.dot_position)
        * (Len(NameOrder) + 1) + Rank(item.lookahead)

RECURSIVE IterItems(_), IterSymbols(_)

IterItems(S) ==
    IF S = {} THEN <<>>
    ELSE LET m == CHOOSE x \in S : \A y \in S :
                      IF hash_seed = 0 THEN ItemKey(x) <= ItemKey(y)
                                       ELSE ItemKey(x) >= ItemKey(y)
         IN <<m>> \o IterItems(S \ {m})

IterSymbols(S) ==
    IF S = {} THEN <<>>
    ELSE LET m == CHOOSE x \in S : \A y \in S :
                      IF hash_seed = 0 THEN Rank(x) <= Rank(y)
                                       ELSE Rank(x) >= Rank(y)
         IN <<m>> \o IterSymbols(S \ {m})

RECURSIVE closure(_, _), closureNext(_, _), closurePass(_, _, _, _, _),
          closureAdd(_, _, _, _, _)

\* One pass of the "while changed" loop of ItemSet.closure: the items are
\* visited in iteration order, each FIRST query updates the caches.
closurePass(c, order, i, items, new_items) ==
    IF i > Len(order)
    THEN [c |-> c, new_items |-> new_items]
    ELSE IF /\ symbol_after_dot(order[i]) # NoneSym
            /\ is_non_terminal(symbol_after_dot(order[i]))
    THEN closureAdd(order, i, items, new_items,
                    first(c, BetaTail(order[i]) \o <<order[i].lookahead>>))
    ELSE closurePass(c, order, i + 1, items, new_items)

\* The items the pass adds for order[i] = [A -> a.Bb, a], with q what
\* grammar.first returned for FIRST(ba).
closureAdd(order, i, items, new_items, q) ==
    LET prods == get_productions_for_symbol(symbol_after_dot(order[i]))
        candidates ==
            {Item(prods[k], 0, terminal) :
                k \in 1..Len(prods),
                terminal \in {t \in q.res : is_terminal(t)}}
    IN closurePass(q.c, order, i + 1, items,
                   new_items \cup (candidates \ items))

\* ItemSet.closure(grammar)
closure(c, items) ==
    closureNext(items, closurePass(c, IterItems(items), 1, items, {}))

\* The end of one pass r: the loop goes on while a pass added items.
closureNext(items, r) ==
    IF r.new_items = {}
    THEN [items |-> items, c |-> r.c]
    ELSE closure(r.c, items \cup r.new_items)

\* The kernel of ItemSet.goto: the items with the dot advanced over symbol.
GotoKernel(items, symbol) ==
    {advance_dot(item) : item \in {x \in items : symbol_after_dot(x) = symbol}}

\* get_reduce_items without the completeness filter
get_reduce_items_unfiltered(items) == items

get_reduce_items(items) == {item \in items : is_complete(item)}

get_shift_symbols(items) ==
    {symbol_after_dot(item) : item \in {x \in items : ~is_complete(x)}}

----------------------------------------------------------------------------
(* Canonical collection (automaton.py).                                    *)

Transition(from_state, to_state, symbol) ==
    [from_state |-> from_state, to_state |-> to_state, symbol |-> symbol]

\* the body of the loop without the lookup in state_map: every goto state
\* becomes a new state and joins the worklist
addTransition_without_lookup(a, state_index, symbol, g) ==
    [c |-> g.c,
     states |-> Append(a.states, g.items),
     state_map |-> (g.items :> Len(a.states)) @@ a.state_map,
     transitions |-> Append(a.transitions,
                        Transition(state_index, Len(a.states), symbol)),
     worklist |-> Append(a.worklist, Len(a.states))]

\* The body of the loop for a goto_state that is not None: g is the closure
\* (the goto state and the caches); a known item set is reused, a new one
\* becomes a state and joins the worklist; the transition is recorded.
addTransition(a, state_index, symbol, g) ==
    LET goto_state == g.items
        known == goto_state \in DOMAIN a.state_map
        target_state_index ==
            IF known THEN a.state_map[goto_state] ELSE Len(a.states)
    IN [c |-> g.c,
        states |-> IF known THEN a.states ELSE Append(a.states, goto_state),
        state_map |-> IF known THEN a.state_map
                      ELSE (goto_state :> target_state_index) @@ a.state_map,
        transitions |-> Append(a.transitions,
                           Transition(state_index, target_state_index, symbol)),
        worklist |-> IF known THEN a.worklist
                     ELSE Append(a.worklist, target_state_index)]

RECURSIVE expandLoop(_, _, _, _)

\* The "for symbol in shift_symbols" loop of _build_automaton for the state
\* state_index, from position i of the iteration order on.  a is the record
\* [c, states, state_map, transitions, worklist] of what the loop updates.
expandLoop(a, state_index, order, i) ==
    IF i > Len(order)
    THEN a
    ELSE IF GotoKernel(a.states[state_index + 1], order[i]) = {}
    THEN expandLoop(a, state_index, order, i + 1)
    ELSE expandLoop(
             addTransition(a, state_index, order[i],
                 closure(a.c, GotoKernel(a.states[state_index + 1], order[i]))),
             state_index, order, i + 1)

\* Automaton.get_transitions_from_state
get_transitions_from_state(state_index) ==
    SelectSeq(transitions, LAMBDA t : t.from_state = state_index)

\* Automaton.get_transition: the first recorded transition, or None
get_transition(from_state, symbol) ==
    LET found == SelectSeq(transitions,
                     LAMBDA t : t.from_state = from_state /\ t.symbol = symbol)
    IN IF found = <<>> THEN NoneInt ELSE found[1].to_state

RECURSIVE Flatten(_)
\* The concatenation of a sequence of lists: what list.extend builds up.
Flatten(lists) ==
    IF lists = <<>> THEN <<>> ELSE Head(lists) \o Flatten(Tail(lists))

\* The order in which a lookahead first appears in a list of items
\* (the insertion order of the lookahead_groups dict).
RECURSIVE FirstOccurrences(_, _)
FirstOccurrences(s, seen) ==
    IF s = <<>> THEN <<>>
    ELSE IF Head(s) \in seen THEN FirstOccurrences(Tail(s), seen)
    ELSE <<Head(s)>> \o FirstOccurrences(Tail(s), seen \cup {Head(s)})

Conflict(type, state, symbol, production_indices, shift_target) ==
    [type |-> type, state |-> state, symbol |-> symbol,
     production_indices |-> production_indices, shift_target |-> shift_target]

\* the conflicts of one state with the reduce-reduce part left out
StateConflictsShiftReduceOnly(state_index) ==
    LET state == states[state_index + 1]
        reduce_items == IterItems(get_reduce_items(state))
        shift_symbols == IterSymbols(get_shift_symbols(state))
        ForSymbol(i) ==
            LET matching == SelectSeq(reduce_items,
                                LAMBDA it : it.lookahead = shift_symbols[i])
            IN [k \in 1..Len(matching) |->
                   Conflict("shift_reduce", state_index, shift_symbols[i],
                            <<ProductionIndex(matching[k].production)>>,
                            get_transition(state_index, shift_symbols[i]))]
    IN Flatten([i \in 1..Len(shift_symbols) |-> ForSymbol(i)])

\* The conflicts Automaton.find_conflicts reports for one state.
StateConflicts(state_index) ==
    LET state == states[state_index + 1]
        reduce_items == IterItems(get_reduce_items(state))
        shift_symbols == IterSymbols(get_shift_symbols(state))
        ForSymbol(i) ==
            LET matching == SelectSeq(reduce_items,
                                LAMBDA it : it.lookahead = shift_symbols[i])
            IN [k \in 1..Len(matching) |->
                   Conflict("shift_reduce", state_index, shift_symbols[i],
                            <<ProductionIndex(matching[k].production)>>,
                            get_transition(state_index, shift_symbols[i]))]
        shift_reduce_conflicts == Flatten([i \in 1..Len(shift_symbols) |-> ForSymbol(i)])
        lookaheads == FirstOccurrences(
                          [k \in 1..Len(reduce_items) |-> reduce_items[k].lookahead], {})
        Group(lookahead) ==
            SelectSeq(reduce_items, LAMBDA it : it.lookahead = lookahead)
        ForLookahead(i) ==
            LET items == Group(lookaheads[i])
            IN IF Len(items) > 1
               THEN <<Conflict("reduce_reduce", state_index, lookaheads[i],
                               [k \in 1..Len(items) |->
                                   ProductionIndex(items[k].production)],
                               NoneInt)>>
               ELSE <<>>
        reduce_reduce_conflicts ==
            IF Len(reduce_items) > 1
            THEN Flatten([i \in 1..Len(lookaheads) |-> ForLookahead(i)])
            ELSE <<>>
    IN shift_reduce_conflicts \o reduce_reduce_conflicts

\* Automaton.find_conflicts
find_conflicts == Flatten([i \in 1..Len(states) |-> StateConflicts(i - 1)])

\* Automaton.is_lr1_grammar
is_lr1_grammar == Len(find_conflicts) = 0

----------------------------------------------------------------------------
(* The pipeline up to the automaton.                                       *)

Init ==
    /\ pc = "automaton_init"
    /\ grammar_id \in GrammarIds
    /\ hash_seed \in HashSeeds
    /\ productions = AugmentedProductions(GrammarTexts[grammar_id])
    /\ start_symbol = Primed(GrammarTexts[grammar_id].start)
    /\ first_cache = <<>>
    /\ first_nt_cache = <<>>
    /\ states = <<>>
    /\ transitions = <<>>
    /\ state_map = <<>>
    /\ worklist = <<>>
    /\ found_conflicts = <<>>
    /\ table_index = 0
    /\ action_table = <<>>
    /\ goto_table = <<>>
    /\ conflicts = <<>>
    /\ engine = "none"
    /\ input_string = <<>>
    /\ stack = <<>>
    /\ input_tokens = <<>>
    /\ input_pointer = 0
    /\ step_number = 0
    /\ ast_nodes = <<>>
    /\ ast_stack = <<>>
    /\ next_node_id = 0
    /\ steps = <<>>
    /\ step_count = 0
    /\ ast = [nodes |-> <<>>, root |-> NoneInt]
    /\ validation = [valid |-> FALSE, error |-> <<"none">>]
    /\ success = FALSE
    /\ action_export = [headers |-> <<>>, rows |-> <<>>]
    /\ follow_cache = <<>>
    /\ earlier_build = [states |-> <<>>, transitions |-> <<>>]
    /\ first_in_progress = {}
    /\ threads = <<>>

\* The automaton and the caches of the grammar become those of the record a.
StoreAutomaton(a) ==
    /\ states' = a.states
    /\ state_map' = a.state_map
    /\ transitions' = a.transitions
    /\ worklist' = a.worklist
    /\ first_cache' = a.c.seq
    /\ first_nt_cache' = a.c.nt
    /\ pc' = IF a.worklist = <<>> THEN "conflicts" ELSE "automaton"

\* The automaton of the one state r.items, the closure of the initial item.
InitialAutomaton(r) ==
    [c |-> r.c, states |-> <<r.items>>, state_map |-> (r.items :> 0),
     transitions |-> <<>>, worklist |-> <<0>>]

\* Automaton._build_automaton up to the worklist loop: state 0 is the
\* closure of the initial item [S' -> .S, $].
BuildInitialState ==
    /\ pc = "automaton_init"
    /\ StoreAutomaton(InitialAutomaton(
           closure(Caches, {Item(productions[1], 0, EndMarker)})))
    /\ UNCHANGED <<grammarVars, found_conflicts, tableVars, engine, parseVars,
                   resultVars, queryVars>>

\* One iteration of the worklist loop of _build_automaton.
ExpandState ==
    /\ pc = "automaton"
    /\ worklist # <<>>
    /\ StoreAutomaton(
           expandLoop([c |-> Caches, states |-> states,
                       state_map |-> state_map,
                       transitions |-> transitions,
                       worklist |-> Tail(worklist)],
                      Head(worklist),
                      IterSymbols(get_shift_symbols(states[Head(worklist) + 1])),
                      1))
    /\ UNCHANGED <<grammarVars, found_conflicts, tableVars, engine, parseVars,
                   resultVars, queryVars>>

\* The caller builds the grammar and its automaton once more, from the same
\* productions: the new Grammar object has empty caches, and the process
\* that builds it may iterate its sets in another order.  The states and
\* transitions of the automaton at hand are kept for comparison.
Rebuild ==
    /\ pc = "conflicts"
    /\ earlier_build.states = <<>>
    /\ earlier_build' = [states |-> states, transitions |-> transitions]
    /\ hash_seed' \in HashSeeds
    /\ first_cache' = <<>>
    /\ first_nt_cache' = <<>>
    /\ states' = <<>>
    /\ transitions' = <<>>
    /\ state_map' = <<>>
    /\ worklist' = <<>>
    /\ pc' = "automaton_init"
    /\ UNCHANGED <<grammar_id, productions, start_symbol, found_conflicts,
                   tableVars, engine, parseVars, resultVars, action_export,
                   follow_cache, threadVars>>

\* Automaton.find_conflicts on the finished automaton.
FindConflicts ==
    /\ pc = "conflicts"
    /\ found_conflicts' = find_conflicts
    /\ pc' = "table"
    /\ UNCHANGED <<grammarVars, first_cache, first_nt_cache, automatonVars,
                   tableVars, engine, parseVars, resultVars, queryVars>>

----------------------------------------------------------------------------
(* Parsing actions (types.py).                                             *)
(* A Python value that is compared with == is a record [cls, value], so    *)
(* that a member of the ActionType enum and the string that is its value   *)
(* are different values, as they are in Python.                            *)

Str(v) == [cls |-> "str", value |-> v]
Member(v) == [cls |-> "ActionType", value |-> v]

ActionType == [SHIFT |-> Member("shift"), REDUCE |-> Member("reduce"),
               ACCEPT |-> Member("accept"), ERROR |-> Member("error")]

\* member.value
EnumValue(member) == Str(member.value)

\* ParsingAction(action_type=..., target=...): Config.use_enum_values stores
\* the value of an enum member in place of the member.
ParsingAction(action_type, target) ==
    [action_type |-> IF action_type.cls = "ActionType"
                     THEN EnumValue(action_type) ELSE action_type,
     target |-> target]

----------------------------------------------------------------------------
(* ACTION / GOTO synthesis (table.py).  t is the record                    *)
(* [action_table, goto_table, conflicts] under construction.               *)

ConflictInfo(state, symbol, actions, conflict_type) ==
    [state |-> state, symbol |-> symbol, actions |-> actions,
     conflict_type |-> conflict_type]

\* _add_conflict that also lets the incoming action take the cell
_add_conflict_overwriting(t, state_index, symbol, existing_action, new_action, conflict_type) ==
    [t EXCEPT !.conflicts =
        Append(@, ConflictInfo(state_index, symbol,
                               <<existing_action, new_action>>, conflict_type)),
              !.action_table = (<<state_index, symbol>> :> new_action) @@ @]

\* ParsingTable._add_conflict
_add_conflict(t, state_index, symbol, existing_action, new_action, conflict_type) ==
    [t EXCEPT !.conflicts =
        Append(@, ConflictInfo(state_index, symbol,
                               <<existing_action, new_action>>, conflict_type))]

\* ParsingTable._add_accept_action
_add_accept_action(t, state_index, lookahead) ==
    LET action == ParsingAction(ActionType.ACCEPT, NoneInt)
        key == <<state_index, lookahead>>
    IN IF key \in DOMAIN t.action_table
       THEN _add_conflict(t, state_index, lookahead, t.action_table[key],
                          action, "accept_conflict")
       ELSE [t EXCEPT !.action_table = (key :> action) @@ @]

\* ParsingTable._add_reduce_action
_add_reduce_action(t, state_index, item, lookahead) ==
    LET production_index == ProductionIndex(item.production)
        action == ParsingAction(ActionType.REDUCE, production_index)
        key == <<state_index, lookahead>>
    IN IF key \in DOMAIN t.action_table
       THEN LET existing_action == t.action_table[key]
                conflict_type ==
                    IF existing_action.action_type = EnumValue(ActionType.SHIFT)
                    THEN "shift_reduce" ELSE "reduce_reduce"
            IN _add_conflict(t, state_index, lookahead, existing_action,
                             action, conflict_type)
       ELSE [t EXCEPT !.action_table = (key :> action) @@ @]

RECURSIVE _process_reduce_items(_, _, _, _)
\* ParsingTable._process_reduce_items, from position i of the list on
_process_reduce_items(t, state_index, reduce_items, i) ==
    IF i > Len(reduce_items)
    THEN t
    ELSE LET item == reduce_items[i]
             lookahead == item.lookahead
         IN _process_reduce_items(
                IF item.production = productions[1]
                THEN _add_accept_action(t, state_index, lookahead)
                ELSE _add_reduce_action(t, state_index, item, lookahead),
                state_index, reduce_items, i + 1)

RECURSIVE _process_shift_actions(_, _, _, _)
\* ParsingTable._process_shift_actions, from position i of the list on
_process_shift_actions(t, state_index, from_state, i) ==
    IF i > Len(from_state)
    THEN t
    ELSE LET transition == from_state[i]
             action == ParsingAction(ActionType.SHIFT, transition.to_state)
             key == <<state_index, transition.symbol>>
             next ==
                 IF ~is_terminal(transition.symbol)
                 THEN t
                 ELSE IF key \in DOMAIN t.action_table
                 THEN LET existing_action == t.action_table[key]
                          conflict_type ==
                              IF existing_action.action_type
                                     = EnumValue(ActionType.REDUCE)
                              THEN "shift_reduce" ELSE "shift_shift"
                      IN _add_conflict(t, state_index, transition.symbol,
                                       existing_action, action, conflict_type)
                 ELSE [t EXCEPT !.action_table = (key :> action) @@ @]
         IN _process_shift_actions(next, state_index, from_state, i + 1)

RECURSIVE _process_goto_transitions(_, _, _, _)
\* ParsingTable._process_goto_transitions, from position i of the list on
_process_goto_transitions(t, state_index, from_state, i) ==
    IF i > Len(from_state)
    THEN t
    ELSE LET transition == from_state[i]
             key == <<state_index, transition.symbol>>
             next ==
                 IF is_non_terminal(transition.symbol)
                 THEN [t EXCEPT !.goto_table =
                          (key :> transition.to_state) @@ @]
                 ELSE t
         IN _process_goto_transitions(next, state_index, from_state, i + 1)

\* ParsingTable.get_action / get_goto: the entry, or None
NoAction == [action_type |-> Str("None"), target |-> NoneInt]

get_action(state, symbol) ==
    IF <<state, symbol>> \in DOMAIN action_table
    THEN action_table[<<state, symbol>>] ELSE NoAction

get_goto(state, non_terminal) ==
    IF <<state, non_terminal>> \in DOMAIN goto_table
    THEN goto_table[<<state, non_terminal>>] ELSE NoneInt

\* has_conflicts that overlooks a single conflict
has_conflicts_above_one == Len(conflicts) > 1

has_conflicts == Len(conflicts) > 0

is_valid_table == ~has_conflicts

\* One iteration of the loop of ParsingTable._build_tables.
BuildTableRow ==
    /\ pc = "table"
    /\ table_index < Len(states)
    /\ LET state == states[table_index + 1]
           from_state == get_transitions_from_state(table_index)
           t0 == [action_table |-> action_table, goto_table |-> goto_table,
                  conflicts |-> conflicts]
           t1 == _process_reduce_items(t0, table_index,
                     IterItems(get_reduce_items(state)), 1)
           t2 == _process_shift_actions(t1, table_index, from_state, 1)
           t3 == _process_goto_transitions(t2, table_index, from_state, 1)
       IN /\ action_table' = t3.action_table
          /\ goto_table' = t3.goto_table
          /\ conflicts' = t3.conflicts
    /\ table_index' = table_index + 1
    /\ pc' = IF table_index + 1 = Len(states) THEN "engine" ELSE "table"
    /\ UNCHANGED <<grammarVars, first_cache, first_nt_cache, automatonVars,
                   found_conflicts, engine, parseVars, resultVars, queryVars>>

----------------------------------------------------------------------------
(* Table export (table.py).  A formatted string f"{prefix}{number}" is the *)
(* record of its prefix and its number; a plain string has number None.    *)

Text(prefix, number) == [prefix |-> prefix, number |-> number]

\* The order of Python's str comparison (by code point) on the names used.
CodePointOrder == <<"$", "(", ")", "*", "+", "?", "A", "B", "C", "E", "E'", "F",
                    "S", "S'", "T", "W", "X0", "X1", "X2", "X3", "Z", "a",
                    "b", "c", "d", "e", "eps", "f", "id", "t", "u", "w", "x",
                    "y", "z">>

\* sorted(list(names)) for a set of names
sorted_names(names) == SelectSeq(CodePointOrder, LAMBDA n : n \in names)

\* sorted(list(indices)) for a set of state indices
sorted_states(indices) ==
    SelectSeq([i \in 1..Len(states) |-> i - 1], LAMBDA n : n \in indices)

\* The cell of export_action_table for the key (state, symbol): the action
\* types stored in the table are compared with the members of ActionType.
export_action_cell(state, symbol) ==
    LET action == get_action(state, symbol)
    IN IF action # NoAction
       THEN IF action.action_type = ActionType.SHIFT
            THEN Text("s", action.target)
            ELSE IF action.action_type = ActionType.REDUCE
            THEN Text("r", action.target)
            ELSE IF action.action_type = ActionType.ACCEPT
            THEN Text("acc", NoneInt)
            ELSE Text("", NoneInt)
       ELSE Text("", NoneInt)

export_action_row(state, symbols) ==
    <<Text("State ", state)>> \o
    [j \in 1..Len(symbols) |-> export_action_cell(state, symbols[j])]

\* ParsingTable.export_action_table
export_action_table ==
    LET keys == DOMAIN action_table
        symbols == sorted_names({k[2] : k \in keys} \cup
                       IF EndMarker \in Terminals THEN {EndMarker} ELSE {})
        rows == sorted_states({k[1] : k \in keys})
    IN [headers |-> <<Text("State", NoneInt)>> \o
                    [j \in 1..Len(symbols) |-> Text(symbols[j], NoneInt)],
        rows |-> [i \in 1..Len(rows) |-> export_action_row(rows[i], symbols)]]

\* A caller exports the ACTION table of the finished table.
ExportActionTable ==
    /\ pc = "engine"
    /\ action_export' = export_action_table
    /\ pc' = "exported"
    /\ UNCHANGED <<grammarVars, first_cache, first_nt_cache, automatonVars,
                   found_conflicts, tableVars, engine, parseVars, resultVars,
                   follow_cache, earlier_build, threadVars>>

----------------------------------------------------------------------------
(* ParserEngine (engine.py).                                               *)

\* ParserEngine.__init__: raises ValueError on a table with conflicts.
ConstructEngine ==
    /\ pc = "engine"
    /\ IF has_conflicts
       THEN engine' = "failed" /\ pc' = "rejected"
       ELSE engine' = "ready" /\ pc' = "idle"
    /\ UNCHANGED <<grammarVars, first_cache, first_nt_cache, automatonVars,
                   found_conflicts, tableVars, parseVars, resultVars, queryVars>>

\* The tokens a caller can type: the terminals of the grammar and one word
\* that is no terminal.
Alphabet == (Terminals \ {EndMarker}) \cup {Unknown}

Inputs == UNION {[1..n -> Alphabet] : n \in 0..MaxLen}

\* the special characters with the bar left out
SpecialCharactersWithoutBar ==
    {"(", ")", "[", "]", "{", "}", "+", "-", "*", "/", "=", "<", ">", "!", "&"}

\* The characters "()[]{}+-*/=<>!&|" of _tokenize
SpecialCharacters == {"(", ")", "[", "]", "{", "}", "+", "-", "*", "/", "=",
                      "<", ">", "!", "&", "|"}

\* The characters of the inputs for which str.isspace() holds
Whitespace == {" ", "\t", "\n"}

RECURSIVE tokenizeLoop(_, _, _, _)
\* The "while i < len(input_string)" loop of _tokenize from the character at
\* position i on (positions count from 1 here), and the code after the loop.
tokenizeLoop(string, i, tokens, current_token) ==
    LET flushed == IF current_token # ""
                   THEN Append(tokens, current_token) ELSE tokens
    IN IF i > Len(string)
       THEN Append(flushed, EndMarker)
       ELSE IF string[i] \in Whitespace
       THEN tokenizeLoop(string, i + 1, flushed, "")
       ELSE IF string[i] \in SpecialCharacters
       THEN tokenizeLoop(string, i + 1, Append(flushed, string[i]), "")
       ELSE tokenizeLoop(string, i + 1, tokens, current_token \o string[i])

\* ParserEngine._tokenize
_tokenize(string) == tokenizeLoop(string, 1, <<>>, "")

\* The characters of a word of the alphabet.
Spell(word) == IF word = "id" THEN <<"i", "d">> ELSE <<word>>

\* The string a caller types for a list of words: the words, one blank
\* between two of them.
Typed(words) ==
    Flatten([k \in 1..Len(words) |->
                IF k = 1 THEN Spell(words[k]) ELSE <<" ">> \o Spell(words[k])])

StackEntry(state, symbol) == [state |-> state, symbol |-> symbol]

\* parse(input_string) up to the loop of _parse_tokens: the initial
\* ParseState.
StartParse ==
    /\ pc = "idle"
    /\ engine = "ready"
    /\ \E words \in Inputs :
           /\ input_string' = Typed(words)
           /\ input_tokens' = _tokenize(Typed(words))
    /\ stack' = <<StackEntry(0, "")>>
    /\ input_pointer' = 0
    /\ step_number' = 0
    /\ ast_nodes' = <<>>
    /\ ast_stack' = <<>>
    /\ next_node_id' = 0
    /\ steps' = <<>>
    /\ step_count' = 0
    /\ pc' = "parsing"
    /\ UNCHANGED <<grammarVars, first_cache, first_nt_cache, automatonVars,
                   found_conflicts, tableVars, engine, resultVars, queryVars>>

\* The factor of the safety limit of _parse_tokens.
StepFactor == 10

\* a safety limit that lets the loop run one step longer
max_steps_and_one(tokens) == Len(tokens) * StepFactor + 1

\* max_steps = len(tokens) * 10
max_steps(tokens) == Len(tokens) * StepFactor

ASTNode(id, symbol, symbol_type, children, parent, production_used) ==
    [id |-> id, symbol |-> symbol, symbol_type |-> symbol_type,
     children |-> children, parent |-> parent,
     production_used |-> production_used]

Explanation(kind, number, symbol) ==
    [kind |-> kind, number |-> number, symbol |-> symbol]

ParsingStep(number, stk, pointer, current_token, action, explanation, created) ==
    [step_number |-> number, stack |-> stk, input_pointer |-> pointer,
     current_token |-> current_token, action |-> action,
     explanation |-> explanation, ast_nodes |-> created]

\* The ParseState the loop of _parse_tokens holds.
ParseState ==
    [stack |-> stack, input_tokens |-> input_tokens,
     input_pointer |-> input_pointer, step_number |-> step_number,
     ast_nodes |-> ast_nodes, ast_stack |-> ast_stack,
     next_node_id |-> next_node_id]

\* ParserEngine._handle_shift: a terminal node is created and pushed on the
\* AST stack; the step gets the dump of the node as it is now.
_handle_shift(ps, token, target_state) ==
    LET node_id == ps.next_node_id
        ast_node == ASTNode(node_id, token, "terminal", <<>>, NoneInt, NoneInt)
    IN [ps |-> [ps EXCEPT !.next_node_id = @ + 1,
                          !.ast_nodes = (node_id :> ast_node) @@ @,
                          !.ast_stack = Append(@, node_id)],
        created |-> <<ast_node>>]

\* _handle_reduce without the test "if rhs_length > 0": the slices
\* ast_stack[-0:] and ast_stack[:-0] are the whole stack and the empty list
_handle_reduce_unguarded(ps, production, production_index) ==
    LET node_id == ps.next_node_id
        rhs_length == Len(production.rhs)
        height == Len(ps.ast_stack)
        child_node_ids ==
            IF rhs_length = 0 THEN ps.ast_stack
            ELSE IF height >= rhs_length
            THEN SubSeq(ps.ast_stack, height - rhs_length + 1, height)
            ELSE <<>>
        popped ==
            IF rhs_length > 0 /\ height >= rhs_length
            THEN SubSeq(ps.ast_stack, 1, height - rhs_length)
            ELSE <<>>
        ast_node == ASTNode(node_id, production.lhs, "non_terminal",
                            child_node_ids, NoneInt, production_index)
        with_parents ==
            [id \in DOMAIN ps.ast_nodes |->
                IF id \in Range(child_node_ids)
                THEN [ps.ast_nodes[id] EXCEPT !.parent = node_id]
                ELSE ps.ast_nodes[id]]
    IN [ps |-> [ps EXCEPT !.next_node_id = @ + 1,
                          !.ast_nodes = (node_id :> ast_node) @@ with_parents,
                          !.ast_stack = Append(popped, node_id)],
        created |-> <<ast_node>>]

\* ParserEngine._handle_reduce: the top rhs_length nodes of the AST stack
\* become the children of a new node; the parent of each child is set in
\* parse_state.ast_nodes; the step gets the dump of the new node.
_handle_reduce(ps, production, production_index) ==
    LET node_id == ps.next_node_id
        rhs_length == Len(production.rhs)
        height == Len(ps.ast_stack)
        child_node_ids ==
            IF rhs_length > 0 /\ height >= rhs_length
            THEN SubSeq(ps.ast_stack, height - rhs_length + 1, height)
            ELSE <<>>
        popped ==
            IF rhs_length > 0
            THEN IF height >= rhs_length
                 THEN SubSeq(ps.ast_stack, 1, height - rhs_length)
                 ELSE <<>>
            ELSE ps.ast_stack
        ast_node == ASTNode(node_id, production.lhs, "non_terminal",
                            child_node_ids, NoneInt, production_index)
        with_parents ==
            [id \in DOMAIN ps.ast_nodes |->
                IF id \in Range(child_node_ids)
                THEN [ps.ast_nodes[id] EXCEPT !.parent = node_id]
                ELSE ps.ast_nodes[id]]
    IN [ps |-> [ps EXCEPT !.next_node_id = @ + 1,
                          !.ast_nodes = (node_id :> ast_node) @@ with_parents,
                          !.ast_stack = Append(popped, node_id)],
        created |-> <<ast_node>>]

\* ParserEngine._execute_step
_execute_step(ps) ==
    LET current_state == IF ps.stack # <<>>
                         THEN ps.stack[Len(ps.stack)].state ELSE 0
        in_range == ps.input_pointer < Len(ps.input_tokens)
        current_token == IF in_range
                         THEN ps.input_tokens[ps.input_pointer + 1]
                         ELSE NoneSym
        looked_up == IF in_range THEN get_action(current_state, current_token)
                     ELSE NoAction
        Emit(action, explanation, h) ==
            [step |-> ParsingStep(ps.step_number, ps.stack, ps.input_pointer,
                                  current_token, action, explanation, h.created),
             ps |-> h.ps]
        nothing == [ps |-> ps, created |-> <<>>]
    IN IF looked_up = NoAction
       THEN Emit(ParsingAction(ActionType.ERROR, NoneInt),
                 Explanation("no_action", current_state, current_token), nothing)
       ELSE IF looked_up.action_type = EnumValue(ActionType.SHIFT)
       THEN Emit(looked_up,
                 Explanation("shift", looked_up.target, current_token),
                 _handle_shift(ps, current_token, looked_up.target))
       ELSE IF looked_up.action_type = EnumValue(ActionType.REDUCE)
       THEN Emit(looked_up,
                 Explanation("reduce", looked_up.target,
                             productions[looked_up.target + 1].lhs),
                 _handle_reduce(ps, productions[looked_up.target + 1],
                                looked_up.target))
       ELSE IF looked_up.action_type = EnumValue(ActionType.ACCEPT)
       THEN Emit(looked_up, Explanation("accept", NoneInt, NoneSym), nothing)
       ELSE Emit(looked_up, Explanation("invalid", NoneInt, NoneSym), nothing)

\* _update_parse_state whose shift leaves the cursor where it is
_update_parse_state_no_advance(ps, step) ==
    LET copied == [ps EXCEPT !.step_number = @ + 1]
        moved ==
            IF step.action.action_type = EnumValue(ActionType.SHIFT)
            THEN [copied EXCEPT
                     !.stack = Append(@, StackEntry(step.action.target,
                                                    step.current_token))]
            ELSE IF step.action.action_type = EnumValue(ActionType.REDUCE)
            THEN LET production == productions[step.action.target + 1]
                     rhs_length == Len(production.rhs)
                     kept == IF Len(copied.stack) >= rhs_length
                             THEN Len(copied.stack) - rhs_length ELSE 0
                     below == SubSeq(copied.stack, 1, kept)
                     current_state == IF below # <<>>
                                      THEN below[Len(below)].state ELSE 0
                     new_state == get_goto(current_state, production.lhs)
                 IN [copied EXCEPT !.stack =
                        IF new_state # NoneInt
                        THEN Append(below, StackEntry(new_state, production.lhs))
                        ELSE below]
            ELSE copied
    IN [moved EXCEPT !.step_number = @ + 1]

\* ParserEngine._update_parse_state
_update_parse_state(ps, step) ==
    LET copied == [ps EXCEPT !.step_number = @ + 1]
        moved ==
            IF step.action.action_type = EnumValue(ActionType.SHIFT)
            THEN [copied EXCEPT
                     !.stack = Append(@, StackEntry(step.action.target,
                                                    step.current_token)),
                     !.input_pointer = @ + 1]
            ELSE IF step.action.action_type = EnumValue(ActionType.REDUCE)
            THEN LET production == productions[step.action.target + 1]
                     rhs_length == Len(production.rhs)
                     kept == IF Len(copied.stack) >= rhs_length
                             THEN Len(copied.stack) - rhs_length ELSE 0
                     below == SubSeq(copied.stack, 1, kept)
                     current_state == IF below # <<>>
                                      THEN below[Len(below)].state ELSE 0
                     new_state == get_goto(current_state, production.lhs)
                 IN [copied EXCEPT !.stack =
                        IF new_state # NoneInt
                        THEN Append(below, StackEntry(new_state, production.lhs))
                        ELSE below]
            ELSE copied
    IN [moved EXCEPT !.step_number = @ + 1]

\* The error step _parse_tokens appends when step_count >= max_steps.
LimitStep(ps, count) ==
    ParsingStep(count, ps.stack, ps.input_pointer,
                IF ps.input_pointer < Len(ps.input_tokens)
                THEN ps.input_tokens[ps.input_pointer + 1] ELSE NoneSym,
                ParsingAction(ActionType.ERROR, NoneInt),
                Explanation("step_limit", NoneInt, NoneSym), <<>>)

\* One iteration of the loop of _parse_tokens and, when the loop ends with
\* it, the code after the loop.
ParseStep ==
    /\ pc = "parsing"
    /\ LET e == _execute_step(ParseState)
           step == e.step
           count == step_count + 1
           halts == step.action.action_type \in
                        {EnumValue(ActionType.ACCEPT), EnumValue(ActionType.ERROR)}
           ps == IF halts THEN e.ps ELSE _update_parse_state(e.ps, step)
           ends == halts \/ ~(count < max_steps(input_tokens))
       IN /\ steps' = IF ends /\ count >= max_steps(input_tokens)
                      THEN Append(Append(steps, step), LimitStep(ps, count))
                      ELSE Append(steps, step)
          /\ step_count' = count
          /\ stack' = ps.stack
          /\ input_pointer' = ps.input_pointer
          /\ step_number' = ps.step_number
          /\ ast_nodes' = ps.ast_nodes
          /\ ast_stack' = ps.ast_stack
          /\ next_node_id' = ps.next_node_id
          /\ pc' = IF ends THEN "parsed" ELSE "parsing"
    /\ UNCHANGED <<grammarVars, first_cache, first_nt_cache, automatonVars,
                   found_conflicts, tableVars, engine, input_string,
                   input_tokens, resultVars, queryVars>>

----------------------------------------------------------------------------
(* Results: get_ast, validate_input, parse_interactive.                    *)

Last(s) == s[Len(s)]

\* The node dumps of all steps in trace order (each step creates 0 or 1).
RECURSIVE CreatedNodes(_, _)
CreatedNodes(trace, i) ==
    IF i > Len(trace) THEN <<>>
    ELSE trace[i].ast_nodes \o CreatedNodes(trace, i + 1)

RECURSIVE LastMatching(_, _, _)
\* The id of the last element of s at a position <= i whose flag is set, or
\* None: "for node_id in reversed(keys): if ...: return node_id".
LastMatching(s, i, flags) ==
    IF i = 0 THEN NoneInt
    ELSE IF flags[i] THEN s[i].id
    ELSE LastMatching(s, i - 1, flags)

\* ParserEngine._find_root_node on the dumps collected by get_ast
_find_root_node(dumps) ==
    LET start == start_symbol
        n == Len(dumps)
        is_start == [k \in 1..n |-> dumps[k].symbol = start]
        is_top == [k \in 1..n |-> /\ dumps[k].parent = NoneInt
                                  /\ dumps[k].children # <<>>
                                  /\ dumps[k].symbol \in NonTerminals]
        is_orphan == [k \in 1..n |-> dumps[k].parent = NoneInt]
        by_start == LastMatching(dumps, n, is_start)
        by_top == LastMatching(dumps, n, is_top)
    IN IF by_start # NoneInt THEN by_start
       ELSE IF by_top # NoneInt THEN by_top
       ELSE LastMatching(dumps, n, is_orphan)

\* ParserEngine.get_ast: the nodes are the dumps recorded in the steps.
get_ast(trace) ==
    LET dumps == CreatedNodes(trace, 1)
    IN [nodes |-> [id \in {dumps[i].id : i \in 1..Len(dumps)} |->
                      Last(SelectSeq(dumps, LAMBDA nd : nd.id = id))],
        root |-> _find_root_node(dumps)]

\* ParserEngine.validate_input on the trace parse returned
validate_input(trace) ==
    IF trace = <<>>
    THEN [valid |-> FALSE, error |-> <<"No parsing steps generated">>]
    ELSE IF Last(trace).action.action_type = ActionType.ACCEPT
    THEN [valid |-> TRUE, error |-> <<>>]
    ELSE [valid |-> FALSE, error |-> <<Last(trace).explanation>>]

\* The "success" entry of ParserEngine.parse_interactive
parse_interactive_success(trace) ==
    Len(trace) > 0
        /\ Last(trace).action.action_type = EnumValue(ActionType.ACCEPT)

\* The callers' view of the finished parse.
Report ==
    /\ pc = "parsed"
    /\ ast' = get_ast(steps)
    /\ validation' = validate_input(steps)
    /\ success' = parse_interactive_success(steps)
    /\ pc' = "done"
    /\ UNCHANGED <<grammarVars, first_cache, first_nt_cache, automatonVars,
                   found_conflicts, tableVars, engine, parseVars, queryVars>>

Next ==
    \/ Follow
    \/ BuildInitialState
    \/ ExpandState
    \/ Rebuild
    \/ FindConflicts
    \/ BuildTableRow
    \/ ExportActionTable
    \/ ConstructEngine
    \/ StartParse
    \/ ParseStep
    \/ Report

Spec == Init /\ [][Next]_vars

\* The steps of a running parse, told by the loop counter: while pc is
\* "parsing" ParseStep is the one action of Next that can act, it always can,
\* and it counts its iteration.
ParseLoopRuns == pc = "parsing" /\ step_count' = step_count + 1

\* The iterations of the worklist loop of _build_automaton, told by the
\* worklist: while pc is "automaton" ExpandState is the one action of Next
\* that can act, it always can, and it pops the head of the worklist and
\* appends the indices of the states it has created.
WorklistLoopRuns ==
    /\ pc = "automaton"
    /\ \E n \in 0..Cardinality(Terminals \cup NonTerminals) :
           worklist' = Tail(worklist) \o [i \in 1..n |-> Len(states) + i - 1]

\* The loops of _parse_tokens and of _build_automaton wait for nothing: a
\* parse that has begun keeps taking steps and a construction that has
\* begun keeps expanding states (weak fairness of ParseStep and of
\* ExpandState, stated on ParseLoopRuns and WorklistLoopRuns).
FairSpec ==
    Spec /\ WF_step_count(ParseLoopRuns) /\ WF_worklist(WorklistLoopRuns)

----------------------------------------------------------------------------
(* The tokenizer on its own: _tokenize is a function of the string alone,  *)
(* so it is applied to every string of a few characters over a small       *)
(* alphabet of blanks, special characters and other characters.            *)

\* Longest string (in characters) given to the tokenizer.
MaxText == 4

TokenChars == {" ", "\n", "(", "|", "i", "d"}

Texts == UNION {[1..n -> TokenChars] : n \in 0..MaxText}

TokenizeInit ==
    /\ pc = "tokenize"
    /\ input_string \in Texts
    /\ grammar_id = "G1"
    /\ hash_seed = 0
    /\ productions = AugmentedProductions(GrammarTexts["G1"])
    /\ start_symbol = Primed(GrammarTexts["G1"].start)
    /\ first_cache = <<>>
    /\ first_nt_cache = <<>>
    /\ states = <<>>
    /\ transitions = <<>>
    /\ state_map = <<>>
    /\ worklist = <<>>
    /\ found_conflicts = <<>>
    /\ table_index = 0
    /\ action_table = <<>>
    /\ goto_table = <<>>
    /\ conflicts = <<>>
    /\ engine = "none"
    /\ stack = <<>>
    /\ input_tokens = <<>>
    /\ input_pointer = 0
    /\ step_number = 0
    /\ ast_nodes = <<>>
    /\ ast_stack = <<>>
    /\ next_node_id = 0
    /\ steps = <<>>
    /\ step_count = 0
    /\ ast = [nodes |-> <<>>, root |-> NoneInt]
    /\ validation = [valid |-> FALSE, error |-> <<"none">>]
    /\ success = FALSE
    /\ action_export = [headers |-> <<>>, rows |-> <<>>]
    /\ follow_cache = <<>>
    /\ earlier_build = [states |-> <<>>, transitions |-> <<>>]
    /\ first_in_progress = {}
    /\ threads = <<>>

\* tokens = self._tokenize(input_string)
Tokenize ==
    /\ pc = "tokenize"
    /\ input_tokens' = _tokenize(input_string)
    /\ pc' = "tokenized"
    /\ UNCHANGED <<grammarVars, first_cache, first_nt_cache, automatonVars,
                   found_conflicts, tableVars, engine, input_string, stack,
                   input_pointer, step_number, ast_nodes, ast_stack,
                   next_node_id, steps, step_count, resultVars, queryVars>>

TokenizeSpec == TokenizeInit /\ [][Tokenize]_vars

----------------------------------------------------------------------------
(* Threads that share one Grammar (grammar_v2.py).  Each thread calls      *)
(* grammar.first(symbols); the caches _first_cache and _first_nt_cache and *)
(* the set _first_in_progress are attributes of the shared object, and no  *)
(* lock guards them.  A thread is the record of its call stack (frames),   *)
(* of the value the call it made last has returned (ret) and of how it     *)
(* ended (result, or status "raised" for an exception that left first);    *)
(* query is the argument of its call of first.                             *)
(* A step of a thread is one access to a shared attribute together with    *)
(* the local computation up to the next one.                               *)
(* A frame [fn, at, symbols, i, acc] is a call of first (fn = "first",     *)
(* symbols its argument, i the position of its loop, acc its result set)   *)
(* or of _first_of_non_terminal (fn = "nt", symbols the one symbol, i the  *)
(* position in the productions of the symbol, acc its first_set).          *)

Threads == {1, 2}

\* The grammars the threads share.
SharedGrammars == {"GE", "G3", "G4", "G5"}

Frame(fn, at, symbols, i, acc) ==
    [fn |-> fn, at |-> at, symbols |-> symbols, i |-> i, acc |-> acc]

\* A thread about to call grammar.first(symbols).
Thread(symbols) ==
    [query |-> symbols,
     frames |-> <<Frame("first", "enter", symbols, 0, {})>>, ret |-> {},
     status |-> "running", result |-> {}]

ConcurrentInit ==
    /\ pc = "threads"
    /\ grammar_id \in SharedGrammars
    /\ hash_seed = 0
    /\ productions = AugmentedProductions(GrammarTexts[grammar_id])
    /\ start_symbol = Primed(GrammarTexts[grammar_id].start)
    /\ threads \in [Threads -> {Thread(<<GrammarTexts[grammar_id].rules[p].lhs>>) :
                                   p \in 1..Len(GrammarTexts[grammar_id].rules)}]
    /\ first_in_progress = {}
    /\ first_cache = <<>>
    /\ first_nt_cache = <<>>
    /\ states = <<>>
    /\ transitions = <<>>
    /\ state_map = <<>>
    /\ worklist = <<>>
    /\ found_conflicts = <<>>
    /\ table_index = 0
    /\ action_table = <<>>
    /\ goto_table = <<>>
    /\ conflicts = <<>>
    /\ engine = "none"
    /\ input_string = <<>>
    /\ stack = <<>>
    /\ input_tokens = <<>>
    /\ input_pointer = 0
    /\ step_number = 0
    /\ ast_nodes = <<>>
    /\ ast_stack = <<>>
    /\ next_node_id = 0
    /\ steps = <<>>
    /\ step_count = 0
    /\ ast = [nodes |-> <<>>, root |-> NoneInt]
    /\ validation = [valid |-> FALSE, error |-> <<"none">>]
    /\ success = FALSE
    /\ action_export = [headers |-> <<>>, rows |-> <<>>]
    /\ follow_cache = <<>>
    /\ earlier_build = [states |-> <<>>, transitions |-> <<>>]

\* The frame on top of the call stack of a thread.
Top(th) == th.frames[Len(th.frames)]

\* Thread t is running and the call on top of its stack is at the place at
\* of the function fn.
At(t, fn, at) ==
    /\ pc = "threads"
    /\ threads[t].status = "running"
    /\ Top(threads[t]).fn = fn
    /\ Top(threads[t]).at = at

\* "return value": the frame is popped; the caller goes on with the value,
\* and the thread ends with it when the call was its query.
Returning(th, value) ==
    IF Len(th.frames) = 1
    THEN [th EXCEPT !.frames = <<>>, !.status = "returned", !.result = value]
    ELSE [th EXCEPT !.frames = [SubSeq(@, 1, Len(@) - 1)
                                   EXCEPT ![Len(th.frames) - 1].at = "returned"],
                    !.ret = value]

\* The frame on top goes on at the place at with i and acc.
Going(th, at, i, acc) ==
    [th EXCEPT !.frames[Len(th.frames)].at = at,
               !.frames[Len(th.frames)].i = i,
               !.frames[Len(th.frames)].acc = acc]

\* The frame on top calls fn(symbols) at position i of its loop.
Calling(th, i, acc, fn, symbols) ==
    [th EXCEPT !.frames = Append(Going(th, "calling", i, acc).frames,
                                 Frame(fn, "enter", symbols, 0, {}))]

RECURSIVE firstScan(_, _, _)
\* The loop of first from position i on, up to the call of
\* _first_of_non_terminal or to the end of the loop.
firstScan(symbols, i, acc) ==
    IF i > Len(symbols)
    THEN [at |-> "store", i |-> i, acc |-> acc \cup {Eps}]
    ELSE IF is_terminal(symbols[i])
    THEN [at |-> "store", i |-> i, acc |-> acc \cup {symbols[i]}]
    ELSE IF symbols[i] = Eps
    THEN firstScan(symbols, i + 1, acc)
    ELSE [at |-> "call", i |-> i, acc |-> acc]

\* first goes on as the scan s says.
FirstGoing(th, s) ==
    IF s.at = "call"
    THEN Calling(th, s.i, s.acc, "nt", <<Top(th).symbols[s.i]>>)
    ELSE Going(th, "store", s.i, s.acc)

RECURSIVE ntScan(_, _, _)
\* The loop of _first_of_non_terminal from production j on, up to the call
\* of first or to the end of the loop.
ntScan(prods, j, acc) ==
    IF j > Len(prods)
    THEN [at |-> "remove", i |-> j, acc |-> acc]
    ELSE IF prods[j].rhs = <<>>
    THEN ntScan(prods, j + 1, acc \cup {Eps})
    ELSE [at |-> "call", i |-> j, acc |-> acc]

\* _first_of_non_terminal goes on as the scan s says.
NtGoing(th, s) ==
    IF s.at = "call"
    THEN Calling(th, s.i, s.acc, "first",
             get_productions_for_symbol(Top(th).symbols[1])[s.i].rhs)
    ELSE Going(th, "remove", s.i, s.acc)

\* What the steps of the threads leave alone.
sharedElsewhere ==
    <<pc, grammarVars, automatonVars, found_conflicts, tableVars, engine,
      parseVars, resultVars, action_export, follow_cache, earlier_build>>

\* first: "if symbols in self._first_cache: return ...", the case of the
\* empty tuple, and the loop up to its first call.
FirstEnter(t) ==
    /\ At(t, "first", "enter")
    /\ LET th == threads[t]
           symbols == Top(th).symbols
       IN IF symbols \in DOMAIN first_cache
          THEN /\ threads' = [threads EXCEPT ![t] =
                                 Returning(th, first_cache[symbols])]
               /\ UNCHANGED first_cache
          ELSE IF symbols = <<>>
          THEN /\ threads' = [threads EXCEPT ![t] = Returning(th, {})]
               /\ first_cache' = (symbols :> {}) @@ first_cache
          ELSE /\ threads' = [threads EXCEPT ![t] =
                                 FirstGoing(th, firstScan(symbols, 1, {}))]
               /\ UNCHANGED first_cache
    /\ UNCHANGED <<first_nt_cache, first_in_progress, sharedElsewhere>>

\* first after "nt_first = self._first_of_non_terminal(symbol)": the result
\* takes all of nt_first but epsilon, and the loop breaks or goes on.
FirstReturned(t) ==
    /\ At(t, "first", "returned")
    /\ LET th == threads[t]
           f == Top(th)
           nt_first == th.ret
           result == f.acc \cup (nt_first \ {Eps})
       IN threads' = [threads EXCEPT ![t] =
              IF Eps \notin nt_first /\ ~_has_epsilon_production(f.symbols[f.i])
              THEN Going(th, "store", f.i, result)
              ELSE FirstGoing(th, firstScan(f.symbols, f.i + 1, result))]
    /\ UNCHANGED <<first_cache, first_nt_cache, first_in_progress,
                   sharedElsewhere>>

\* first: "self._first_cache[symbols] = result; return result"
FirstStore(t) ==
    /\ At(t, "first", "store")
    /\ first_cache' = (Top(threads[t]).symbols :> Top(threads[t]).acc)
                          @@ first_cache
    /\ threads' = [threads EXCEPT ![t] =
                      Returning(threads[t], Top(threads[t]).acc)]
    /\ UNCHANGED <<first_nt_cache, first_in_progress, sharedElsewhere>>

\* _first_of_non_terminal: "cached = self._first_nt_cache.get(symbol)"
NtEnter(t) ==
    /\ At(t, "nt", "enter")
    /\ LET th == threads[t]
           symbol == Top(th).symbols[1]
       IN threads' = [threads EXCEPT ![t] =
              IF symbol \in DOMAIN first_nt_cache
              THEN Returning(th, first_nt_cache[symbol])
              ELSE Going(th, "guard", 0, {})]
    /\ UNCHANGED <<first_cache, first_nt_cache, first_in_progress,
                   sharedElsewhere>>

\* _first_of_non_terminal: "if symbol in self._first_in_progress: return
\* set()"
NtGuard(t) ==
    /\ At(t, "nt", "guard")
    /\ LET th == threads[t]
           symbol == Top(th).symbols[1]
       IN threads' = [threads EXCEPT ![t] =
              IF symbol \in first_in_progress
              THEN Returning(th, {})
              ELSE Going(th, "add", 0, {})]
    /\ UNCHANGED <<first_cache, first_nt_cache, first_in_progress,
                   sharedElsewhere>>

\* _first_of_non_terminal: "self._first_in_progress.add(symbol)" and the
\* loop over the productions up to its first call.
NtAdd(t) ==
    /\ At(t, "nt", "add")
    /\ first_in_progress' =
           first_in_progress \cup {Top(threads[t]).symbols[1]}
    /\ threads' = [threads EXCEPT ![t] =
           NtGoing(threads[t],
               ntScan(get_productions_for_symbol(Top(threads[t]).symbols[1]),
                      1, {}))]
    /\ UNCHANGED <<first_cache, first_nt_cache, sharedElsewhere>>

\* _first_of_non_terminal after "seq_first = self.first(...)":
\* first_set.update(seq_first), and the loop goes on.
NtReturned(t) ==
    /\ At(t, "nt", "returned")
    /\ LET th == threads[t]
           f == Top(th)
       IN threads' = [threads EXCEPT ![t] =
              NtGoing(th,
                  ntScan(get_productions_for_symbol(f.symbols[1]), f.i + 1,
                         f.acc \cup th.ret))]
    /\ UNCHANGED <<first_cache, first_nt_cache, first_in_progress,
                   sharedElsewhere>>

\* _first_of_non_terminal: "self._first_in_progress.remove(symbol)", which
\* raises KeyError when the symbol is not in the set; nothing catches it.
NtRemove(t) ==
    /\ At(t, "nt", "remove")
    /\ LET th == threads[t]
           symbol == Top(th).symbols[1]
       IN IF symbol \in first_in_progress
          THEN /\ first_in_progress' = first_in_progress \ {symbol}
               /\ threads' = [threads EXCEPT ![t] =
                                 Going(th, "memo", Top(th).i, Top(th).acc)]
          ELSE /\ UNCHANGED first_in_progress
               /\ threads' = [threads EXCEPT ![t] =
                                 [th EXCEPT !.frames = <<>>,
                                            !.status = "raised"]]
    /\ UNCHANGED <<first_cache, first_nt_cache, sharedElsewhere>>

\* _first_of_non_terminal: "self._first_nt_cache[symbol] = first_set;
\* return first_set"
NtMemo(t) ==
    /\ At(t, "nt", "memo")
    /\ first_nt_cache' =
           (Top(threads[t]).symbols[1] :> Top(threads[t]).acc) @@ first_nt_cache
    /\ threads' = [threads EXCEPT ![t] =
                      Returning(threads[t], Top(threads[t]).acc)]
    /\ UNCHANGED <<first_cache, first_in_progress, sharedElsewhere>>

ConcurrentNext ==
    \E t \in Threads :
        \/ FirstEnter(t)
        \/ FirstReturned(t)
        \/ FirstStore(t)
        \/ NtEnter(t)
        \/ NtGuard(t)
        \/ NtAdd(t)
        \/ NtReturned(t)
        \/ NtRemove(t)
        \/ NtMemo(t)

ConcurrentSpec == ConcurrentInit /\ [][ConcurrentNext]_vars

----------------------------------------------------------------------------
(* Reference notions the properties are stated against.                    *)

\* The words given to parse: the tokens before the end marker.
Words == SubSeq(input_tokens, 1, Len(input_tokens) - 1)

OverTerminals == Range(Words) \subseteq (Terminals \ {EndMarker})

\* find_conflicts has just returned: the automaton is complete.
ConflictsFound == pc = "table" /\ table_index = 0

\* _build_tables has just returned: the table is complete.
TableBuilt == pc = "engine"

ParseOver == pc \in {"parsed", "done"}

EndsWithAccept ==
    steps # <<>> /\ Last(steps).action.action_type = Str("accept")

RECURSIVE SeqDerives(_, _, _, _, _)
\* rhs derives w[i+1..j], given the set D of triples <<A, i, j>> already
\* known to mean "A derives w[i+1..j]".
SeqDerives(w, rhs, i, j, D) ==
    IF rhs = <<>> THEN i = j
    ELSE \E k \in i..j :
            /\ IF Head(rhs) \in NonTerminals
               THEN <<Head(rhs), i, k>> \in D
               ELSE k = i + 1 /\ w[k] = Head(rhs)
            /\ SeqDerives(w, Tail(rhs), k, j, D)

DeriveStep(w, D) ==
    {t \in NonTerminals \X (0..Len(w)) \X (0..Len(w)) :
        /\ t[2] <= t[3]
        /\ \E p \in 1..Len(productions) :
              /\ productions[p].lhs = t[1]
              /\ SeqDerives(w, productions[p].rhs, t[2], t[3], D)}

RECURSIVE DerivableFix(_, _)
DerivableFix(w, D) ==
    LET N == DeriveStep(w, D) IN IF N = D THEN D ELSE DerivableFix(w, N)

\* w is derivable from the user start symbol: w \in L(G).
InLanguage(w) == <<UserStart, 0, Len(w)>> \in DerivableFix(w, {})

RECURSIVE SeqFirst(_, _)
\* FIRST of a right-hand side by the derivation rule, given FIRST of the
\* non-terminals as the function F.
SeqFirst(rhs, F) ==
    IF rhs = <<>> THEN {Eps}
    ELSE IF Head(rhs) \notin NonTerminals THEN {Head(rhs)}
    ELSE (F[Head(rhs)] \ {Eps})
             \cup (IF Eps \in F[Head(rhs)] THEN SeqFirst(Tail(rhs), F) ELSE {})

RuleFirst(A, F) ==
    UNION {SeqFirst(productions[p].rhs, F) :
              p \in {q \in 1..Len(productions) : productions[q].lhs = A}}

RECURSIVE FirstFix(_)
FirstFix(F) ==
    LET N == [A \in NonTerminals |->
                 IF A \in DOMAIN first_nt_cache THEN first_nt_cache[A]
                 ELSE RuleFirst(A, F)]
    IN IF N = F THEN F ELSE FirstFix(N)

\* FIRST of every non-terminal: the memoized set where there is one, the
\* least solution of the derivation rule elsewhere.
MemoFirst ==
    FirstFix([A \in NonTerminals |->
                 IF A \in DOMAIN first_nt_cache THEN first_nt_cache[A] ELSE {}])

----------------------------------------------------------------------------
(* Properties.                                                             *)

\* C1: for a conflict-free grammar and a token string w over its terminals,
\* the trace of parse(w) ends with an accept step if and only if w is
\* derivable from the user start symbol.
C1_AcceptIffInLanguage ==
    (ParseOver /\ OverTerminals) => (EndsWithAccept <=> InLanguage(Words))

\* C2: every memoized FIRST(A) is a subset of terminals and epsilon and
\* contains FIRST(rhs) for every production A -> rhs.
C2_FirstIsFixedPoint ==
    \A A \in DOMAIN first_nt_cache :
        /\ first_nt_cache[A] \subseteq (Terminals \cup {Eps})
        /\ RuleFirst(A, MemoFirst) \subseteq first_nt_cache[A]

StateIndices == 0..(Len(states) - 1)

Complete(item) == item.dot_position = Len(item.production.rhs)

ActionEntries == {<<k, action_table[k]>> : k \in DOMAIN action_table}

GotoEntries == {<<k, goto_table[k]>> : k \in DOMAIN goto_table}

Entry(state, symbol, kind, target) ==
    <<<<state, symbol>>, [action_type |-> Str(kind), target |-> target]>>

\* accept at (s, $) for each state s with the item [S' -> S., $]
ExpectedAccept ==
    {Entry(s, EndMarker, "accept", NoneInt) :
        s \in {q \in StateIndices :
                  Item(productions[1], 1, EndMarker) \in states[q + 1]}}

\* reduce(index of A -> alpha) at (s, a) for each complete item
\* [A -> alpha., a] of s with A # S'
ExpectedReduce ==
    UNION {UNION {{Entry(s, item.lookahead, "reduce", i) :
                      i \in {j \in 0..(Len(productions) - 1) :
                                productions[j + 1] = item.production}} :
                  item \in {x \in states[s + 1] :
                               Complete(x) /\ x.production.lhs # start_symbol}} :
           s \in StateIndices}

\* shift(s') at (s, t) for each recorded transition from s to s' on a
\* terminal t
ExpectedShift ==
    {Entry(t.from_state, t.symbol, "shift", t.to_state) :
        t \in {u \in Range(transitions) : u.symbol \in Terminals}}

\* GOTO[s, A] = s' for each recorded transition on a non-terminal A
ExpectedGoto ==
    {<<<<t.from_state, t.symbol>>, t.to_state>> :
        t \in {u \in Range(transitions) : u.symbol \in NonTerminals}}

\* C3: in a table without conflicts the ACTION entries are exactly the
\* accept, reduce and shift entries the items and transitions call for, and
\* the GOTO entries are exactly the transitions on non-terminals.
C3_TableEntries ==
    (TableBuilt /\ conflicts = <<>>) =>
        /\ ActionEntries = ExpectedAccept \cup ExpectedReduce \cup ExpectedShift
        /\ GotoEntries = ExpectedGoto

ReportedAt(type) ==
    {<<c.state, c.symbol>> : c \in {d \in Range(found_conflicts) : d.type = type}}

\* (state, X): terminal X follows the dot of an incomplete item of the state
\* and is the lookahead of a complete item of it
ShiftReducePairs ==
    {sx \in StateIndices \X Terminals :
        /\ \E item \in states[sx[1] + 1] :
              /\ ~Complete(item)
              /\ item.production.rhs[item.dot_position + 1] = sx[2]
        /\ \E item \in states[sx[1] + 1] :
              Complete(item) /\ item.lookahead = sx[2]}

\* (state, X): X is the lookahead of two distinct complete items of the state
ReduceReducePairs ==
    {sx \in StateIndices \X Terminals :
        \E i1, i2 \in states[sx[1] + 1] :
            /\ i1 # i2
            /\ Complete(i1) /\ i1.lookahead = sx[2]
            /\ Complete(i2) /\ i2.lookahead = sx[2]}

\* C4: find_conflicts reports a shift_reduce conflict at exactly the pairs
\* (state, X) where X follows a dot and is a lookahead of a complete item,
\* a reduce_reduce conflict at exactly the pairs where X is the lookahead of
\* two complete items, and is_lr1_grammar is true iff nothing is reported.
C4_ConflictsReported ==
    ConflictsFound =>
        /\ ReportedAt("shift_reduce") = ShiftReducePairs
        /\ ReportedAt("reduce_reduce") = ReduceReducePairs
        /\ \A c \in Range(found_conflicts) :
              c.type \in {"shift_reduce", "reduce_reduce"}
        /\ is_lr1_grammar <=> (ShiftReducePairs \cup ReduceReducePairs = {})

\* An automaton for which conflicts of both kinds are reported.
C4_Witness ==
    /\ ConflictsFound
    /\ ReportedAt("shift_reduce") # {}
    /\ ReportedAt("reduce_reduce") # {}
    /\ ~is_lr1_grammar

EngineDecided == pc \in {"rejected", "idle", "parsing", "parsed", "done"}

\* C5: constructing the engine fails whenever the table has a recorded
\* conflict and succeeds whenever it has none, so that no parse step is
\* executed against a table with conflicts.
C5_EngineNeedsNoConflicts ==
    /\ EngineDecided =>
          /\ Len(conflicts) >= 1 => engine = "failed"
          /\ Len(conflicts) = 0 => engine = "ready"
    /\ ~EngineDecided => engine = "none"
    /\ engine = "failed" => pc = "rejected" /\ steps = <<>> /\ step_count = 0
    /\ (pc \in {"parsing", "parsed", "done"} \/ steps # <<>>) =>
          conflicts = <<>> /\ engine = "ready"

\* The construction failed on a table with a recorded conflict.
C5_Witness ==
    pc = "rejected" /\ engine = "failed" /\ Len(conflicts) >= 1

IsNoAction(step) == step.explanation.kind = "no_action"

ErrorSteps == {j \in 1..Len(steps) : steps[j].action.action_type = Str("error")}

\* C6: when ACTION[top state, current token] is undefined the engine emits
\* exactly one error step, which records the unchanged stack and cursor,
\* creates no AST node, changes neither the stack nor the cursor, and is the
\* last step of the trace.
C6_UndefinedActionHalts ==
    \A i \in 1..Len(steps) :
        IsNoAction(steps[i]) =>
            /\ steps[i].action.action_type = Str("error")
            /\ steps[i].ast_nodes = <<>>
            /\ steps[i].stack = stack
            /\ steps[i].input_pointer = input_pointer
            /\ i = Len(steps)
            /\ ErrorSteps = {i}

IsShift(step) == step.action.action_type = Str("shift")

IsReduce(step) == step.action.action_type = Str("reduce")

RhsLength(step) == Len(productions[step.action.target + 1].rhs)

\* C7: of two consecutive steps, after a shift the cursor is 1 larger and
\* the recorded stack 1 longer; after a reduce by a production with k
\* right-hand-side symbols the cursor is the same and the recorded stack
\* length has changed by 1 - k.
C7_TraceLaw ==
    \A i \in 1..(Len(steps) - 1) :
        /\ IsShift(steps[i]) =>
              /\ steps[i + 1].input_pointer = steps[i].input_pointer + 1
              /\ Len(steps[i + 1].stack) = Len(steps[i].stack) + 1
        /\ IsReduce(steps[i]) =>
              /\ steps[i + 1].input_pointer = steps[i].input_pointer
              /\ Len(steps[i + 1].stack)
                     = Len(steps[i].stack) + 1 - RhsLength(steps[i])

\* A finished trace with a shift, a reduce of an empty right-hand side and a
\* reduce of two or more symbols, each followed by another step.
C7_Witness ==
    /\ ParseOver
    /\ \E i \in 1..(Len(steps) - 1) : IsShift(steps[i])
    /\ \E i \in 1..(Len(steps) - 1) :
          IsReduce(steps[i]) /\ RhsLength(steps[i]) = 0
    /\ \E i \in 1..(Len(steps) - 1) :
          IsReduce(steps[i]) /\ RhsLength(steps[i]) >= 2

Successful == pc = "done" /\ EndsWithAccept

ParentsOf(id) ==
    {p \in DOMAIN ast.nodes : id \in Range(ast.nodes[p].children)}

\* C8: in the AST of a successful parse every node but the root has as its
\* parent the one node whose children list contains it, and the root has no
\* parent.
C8_ParentLinks ==
    Successful =>
        /\ ast.root \in DOMAIN ast.nodes
        /\ ast.nodes[ast.root].parent = NoneInt
        /\ \A id \in DOMAIN ast.nodes \ {ast.root} :
              /\ ParentsOf(id) = {ast.nodes[id].parent}

ReducesToStart(step) ==
    IsReduce(step) /\ productions[step.action.target + 1].lhs = UserStart

StartNodes == {id \in DOMAIN ast.nodes : ast.nodes[id].symbol = UserStart}

\* C9: the root of the AST of a successful parse is the node created by the
\* last reduce to the user start symbol S: not a node of S', not a terminal
\* node, not an earlier node labelled S.
C9_RootIsLastStartNode ==
    Successful =>
        /\ ast.root \in StartNodes
        /\ ast.nodes[ast.root].symbol # start_symbol
        /\ ast.nodes[ast.root].symbol_type = "non_terminal"
        /\ \A id \in StartNodes : id <= ast.root
        /\ \E i \in 1..Len(steps) :
              /\ ReducesToStart(steps[i])
              /\ steps[i].ast_nodes[1].id = ast.root
              /\ \A j \in (i + 1)..Len(steps) : ~ReducesToStart(steps[j])

\* C10: validate_input returns valid = true exactly when the trace ends with
\* an accept step, and otherwise valid = false with the explanation of the
\* final step as the error; the success flag of parse_interactive has the
\* same truth value.
C10_ValidIffAccept ==
    pc = "done" =>
        /\ validation.valid <=> EndsWithAccept
        /\ ~EndsWithAccept =>
              /\ ~validation.valid
              /\ validation.error = <<Last(steps).explanation>>
        /\ success <=> validation.valid

----------------------------------------------------------------------------
(* C11: export_action_table renders the cell of state s and terminal t as  *)
(* sN for a shift to N, rN for a reduce by production N, acc for accept,   *)
(* and as the empty string only when ACTION[s, t] is undefined; the        *)
(* columns follow the sorted terminal names and the rows the ascending     *)
(* state index.                                                            *)

Exported == pc = "exported"

\* The rendering the export is to give to an entry of the ACTION table.
ExpectedCell(action) ==
    IF action = NoAction THEN Text("", NoneInt)
    ELSE IF action.action_type.value = "shift" THEN Text("s", action.target)
    ELSE IF action.action_type.value = "reduce" THEN Text("r", action.target)
    ELSE IF action.action_type.value = "accept" THEN Text("acc", NoneInt)
    ELSE Text("", NoneInt)

\* The position of a name in the order of the sorted names.
CodePoint(name) ==
    CHOOSE i \in 1..Len(CodePointOrder) : CodePointOrder[i] = name

ExportColumnsSorted ==
    LET h == action_export.headers
    IN /\ Len(h) >= 1
       /\ h[1] = Text("State", NoneInt)
       /\ \A j \in 2..Len(h) : h[j].prefix \in Terminals
       /\ \A j \in 2..(Len(h) - 1) :
              CodePoint(h[j].prefix) < CodePoint(h[j + 1].prefix)

ExportRowsAscending ==
    LET r == action_export.rows
    IN /\ \A i \in 1..Len(r) : r[i][1].prefix = "State "
       /\ \A i \in 1..(Len(r) - 1) : r[i][1].number < r[i + 1][1].number

ExportCellsRendered ==
    \A i \in 1..Len(action_export.rows) :
        \A j \in 2..Len(action_export.headers) :
            action_export.rows[i][j] =
                ExpectedCell(get_action(action_export.rows[i][1].number,
                                        action_export.headers[j].prefix))

C11_ExportRendersActions ==
    Exported => /\ ExportColumnsSorted
                /\ ExportRowsAscending
                /\ ExportCellsRendered

----------------------------------------------------------------------------
(* C12: when the construction of the table is to install an action in an   *)
(* ACTION cell that already holds one, the cell keeps the action installed *)
(* first and one conflict record is appended whose actions are the         *)
(* pre-existing action followed by the incoming one; has_conflicts() holds *)
(* (is_valid_table() fails) exactly if such a collision has occurred.      *)

\* The installations row s asks for, as pairs of cell and action: accept or
\* reduce for each complete item, shift for each transition on a terminal.
Incoming(s) ==
    {<<<<s, x.lookahead>>,
       IF x.production = productions[1]
       THEN [action_type |-> Str("accept"), target |-> NoneInt]
       ELSE [action_type |-> Str("reduce"),
             target |-> ProductionIndex(x.production)]>> :
        x \in {y \in states[s + 1] : Complete(y)}}
    \cup
    {<<<<s, u.symbol>>, [action_type |-> Str("shift"), target |-> u.to_state]>> :
        u \in {v \in Range(transitions) :
                  v.from_state = s /\ v.symbol \in Terminals}}

\* The cells filled and the conflict records appended by the step.
FilledCells == DOMAIN action_table' \ DOMAIN action_table

AppendedRecords == (Len(conflicts) + 1)..Len(conflicts')

C12_RowKeepsFirstAction ==
    /\ \A k \in DOMAIN action_table :
           k \in DOMAIN action_table' /\ action_table'[k] = action_table[k]
    /\ SubSeq(conflicts', 1, Len(conflicts)) = conflicts
    /\ \A k \in FilledCells :
           /\ <<k, action_table'[k]>> \in Incoming(table_index)
           /\ action_table'[k].action_type = Str("shift") =>
                  \A e \in Incoming(table_index) :
                      e[1] = k => e[2].action_type = Str("shift")
    /\ \A i \in AppendedRecords :
           LET c == conflicts'[i]
               key == <<c.state, c.symbol>>
           IN /\ c.state = table_index
              /\ key \in FilledCells
              /\ Len(c.actions) = 2
              /\ c.actions[1] = action_table'[key]
              /\ c.actions[2] # c.actions[1]
              /\ <<key, c.actions[2]>> \in Incoming(table_index)
    /\ Incoming(table_index) =
           {<<k, action_table'[k]>> : k \in FilledCells} \cup
           {<<<<conflicts'[i].state, conflicts'[i].symbol>>,
              conflicts'[i].actions[2]>> : i \in AppendedRecords}
    /\ Cardinality(Incoming(table_index)) =
           Cardinality(FilledCells) + Cardinality(AppendedRecords)
    /\ has_conflicts' <=>
           \/ has_conflicts
           \/ Cardinality(Incoming(table_index)) > Cardinality(FilledCells)
    /\ is_valid_table' <=> ~has_conflicts'

C12_CollisionKeepsFirst == [][pc = "table" => C12_RowKeepsFirstAction]_vars

\* A finished table in which a shift and a reduce met a cell that held a
\* reduce: both records name the action the cell still holds, then the
\* incoming action.
C12_Witness ==
    /\ TableBuilt
    /\ \E i, j \in 1..Len(conflicts) :
           /\ conflicts[i].actions[2].action_type = Str("shift")
           /\ conflicts[j].actions[2].action_type = Str("reduce")
           /\ \A n \in {i, j} :
                  /\ conflicts[n].actions[1].action_type = Str("reduce")
                  /\ conflicts[n].actions[1] =
                         action_table[<<conflicts[n].state, conflicts[n].symbol>>]

----------------------------------------------------------------------------
(* The safety limit of the driver.                                         *)

\* 10 * |tokens|, the end marker counted
StepLimit == StepFactor * Len(input_tokens)

\* The synthetic step appended when the limit is hit.
IsLimitStep(step) == step.explanation.kind = "step_limit"

LimitSteps == {i \in 1..Len(steps) : IsLimitStep(steps[i])}

\* C13: with a table without conflicts the safety limit of 10 * |tokens|
\* steps is never reached: no parse ends with the synthetic step-limit
\* error step.
C13_LimitNeverReached ==
    (ParseOver /\ is_valid_table) =>
        /\ step_count < StepLimit
        /\ LimitSteps = {}

\* C14: every parse terminates and returns a trace of at most
\* 10 * |tokens| + 1 steps; when the main loop has executed 10 * |tokens|
\* steps, one synthetic error step is appended as the last step.
C14_TraceWithinLimit ==
    /\ step_count <= StepLimit
    /\ Len(steps) <= StepLimit + 1
    /\ pc = "parsing" =>
           /\ step_count < StepLimit
           /\ Len(steps) = step_count
           /\ LimitSteps = {}
    /\ ParseOver =>
           IF step_count = StepLimit
           THEN /\ Len(steps) = StepLimit + 1
                /\ LimitSteps = {Len(steps)}
           ELSE /\ Len(steps) = step_count
                /\ LimitSteps = {}

C14_ParseTerminatesWithinLimit ==
    /\ []C14_TraceWithinLimit
    /\ (pc = "parsing") ~> ParseOver

\* A parse over whose loop ran 10 * |tokens| steps without reaching accept
\* or an error, and whose trace ends with the synthetic step.
C14_Witness ==
    /\ ParseOver
    /\ step_count = StepLimit
    /\ Len(steps) = StepLimit + 1
    /\ IsLimitStep(Last(steps))
    /\ steps[StepLimit].action.action_type \in {Str("shift"), Str("reduce")}

----------------------------------------------------------------------------
(* C15 is about a reduce by B -> X1 ... Xk that finds GOTO[top, B]         *)
(* undefined after popping k entries.  _update_parse_state has no error    *)
(* step for that case (it leaves the stack without B and goes on), but no  *)
(* table that ParsingTable builds leads a parse there: the state below the *)
(* popped entries holds the item [B -> .X1 ... Xk, a], which closure added *)
(* for an item with B after the dot, so the transition on B is recorded.   *)

\* The entry on top of the stack of a reduce step once k entries are popped.
TopAfterPop(step) == step.stack[Len(step.stack) - RhsLength(step)]

\* Every reduce step of every trace finds its GOTO entry.
GotoDefinedAtEveryReduce ==
    \A i \in 1..Len(steps) :
        IsReduce(steps[i]) =>
            /\ Len(steps[i].stack) > RhsLength(steps[i])
            /\ get_goto(TopAfterPop(steps[i]).state,
                        productions[steps[i].action.target + 1].lhs) # NoneInt

----------------------------------------------------------------------------
(* C16: in every trace the step numbers start at 0 and are strictly        *)
(* increasing from each step to the next, a final error step of any kind   *)
(* included.                                                               *)

C16_StepNumbersIncrease ==
    /\ steps # <<>> => steps[1].step_number = 0
    /\ \A i \in 1..(Len(steps) - 1) :
           steps[i].step_number < steps[i + 1].step_number

----------------------------------------------------------------------------
(* C17: every grammar built from user productions and a declared start     *)
(* symbol S has the augmented production S' -> S at index 0, where S' is a *)
(* fresh non-terminal whose name differs from every symbol name of the     *)
(* user's productions, and no other production has S' as left-hand side.   *)

\* The productions the user gave: all but the one at index 0.
UserProductions == Tail(productions)

UserSymbolNames ==
    UNION {{UserProductions[i].lhs} \cup Range(UserProductions[i].rhs) :
              i \in 1..Len(UserProductions)}

C17_AugmentedStartIsFresh ==
    /\ productions[1] = Prod(start_symbol, <<GrammarTexts[grammar_id].start>>)
    /\ UserProductions = GrammarTexts[grammar_id].rules
    /\ start_symbol \notin UserSymbolNames
    /\ \A i \in 1..Len(UserProductions) : UserProductions[i].lhs # start_symbol

----------------------------------------------------------------------------
(* C18: the memoized FOLLOW(A) of a non-terminal A contains only terminals *)
(* (never epsilon), contains $ when A is the user start symbol S, and for  *)
(* every production B -> alpha A beta contains FIRST(beta) \ {epsilon}     *)
(* and, when beta is empty or epsilon is in FIRST(beta), every element of  *)
(* FOLLOW(B).                                                              *)

\* FIRST of every non-terminal: the least solution of the derivation rule.
RECURSIVE LeastFirstFrom(_)
LeastFirstFrom(F) ==
    LET N == [A \in NonTerminals |-> RuleFirst(A, F)]
    IN IF N = F THEN F ELSE LeastFirstFrom(N)

LeastFirst == LeastFirstFrom([A \in NonTerminals |-> {}])

\* The occurrences of A in right-hand sides: production p, position i.
Occurrences(A) ==
    {o \in (1..Len(productions)) \X (1..4) :
        /\ o[2] <= Len(productions[o[1]].rhs)
        /\ productions[o[1]].rhs[o[2]] = A}

\* beta of the occurrence o: what follows A in the right-hand side.
Beta(o) ==
    SubSeq(productions[o[1]].rhs, o[2] + 1, Len(productions[o[1]].rhs))

FollowQueried == pc = "follow"

C18_FollowIsClosed ==
    FollowQueried =>
        \A A \in DOMAIN follow_cache :
            /\ follow_cache[A] \subseteq Terminals
            /\ A = UserStart => EndMarker \in follow_cache[A]
            /\ \A o \in Occurrences(A) :
                   /\ SeqFirst(Beta(o), LeastFirst) \ {Eps} \subseteq follow_cache[A]
                   /\ Eps \in SeqFirst(Beta(o), LeastFirst) =>
                          /\ productions[o[1]].lhs \in DOMAIN follow_cache
                          /\ follow_cache[productions[o[1]].lhs]
                                 \subseteq follow_cache[A]

----------------------------------------------------------------------------
(* Two constructions of the automaton from equal grammars.                 *)

\* The automaton at hand is finished and an earlier one is at hand too.
BuiltTwice == pc = "conflicts" /\ earlier_build.states # <<>>

\* C19: the construction expands the symbols after the dot in a
\* deterministic order, so that constructing the automaton twice from equal
\* grammars assigns the same state index to every item set and records the
\* same transitions.
C19_SameNumbering ==
    BuiltTwice =>
        /\ states = earlier_build.states
        /\ Range(transitions) = Range(earlier_build.transitions)

\* C20: constructing the automaton twice from equal grammars yields the
\* same set of item sets whatever the order in which symbols and items are
\* visited: the two collections differ at most by the numbering of the
\* states.
C20_SameItemSets ==
    BuiltTwice => Range(states) = Range(earlier_build.states)

----------------------------------------------------------------------------
(* C21: the tokenizer splits the input on whitespace, emits each of the    *)
(* characters ( ) [ ] { } + - * / = < > ! & | as a token of its own even   *)
(* without whitespace around it, keeps every other maximal run of          *)
(* characters that are not whitespace as one token, in input order, and    *)
(* appends $ once, as the last token; the empty input gives [$].           *)

\* The characters the tokenizer is to emit as tokens of their own.
SingleCharacterTokens ==
    {"(", ")", "[", "]", "{", "}", "+", "-", "*", "/", "=", "<", ">", "!",
     "&", "|"}

Blanks == {" ", "\t", "\n"}

InRun(ch) == ch \notin Blanks /\ ch \notin SingleCharacterTokens

\* The positions of the text where a token begins.
TokenStarts(text) ==
    {i \in 1..Len(text) :
        \/ text[i] \in SingleCharacterTokens
        \/ InRun(text[i]) /\ (i = 1 \/ ~InRun(text[i - 1]))}

\* The position where the token that begins at position s ends.
TokenEnd(text, s) ==
    IF text[s] \in SingleCharacterTokens THEN s
    ELSE CHOOSE e \in s..Len(text) :
             /\ \A j \in s..e : InRun(text[j])
             /\ e = Len(text) \/ ~InRun(text[e + 1])

RECURSIVE Glue(_, _, _)
\* The characters of the text from position i to position e as one string.
Glue(text, i, e) == IF i > e THEN "" ELSE text[i] \o Glue(text, i + 1, e)

\* The k-th smallest element of a set of positions.
Nth(positions, k) ==
    CHOOSE s \in positions : Cardinality({x \in positions : x < s}) = k - 1

ExpectedTokens(text) ==
    [k \in 1..Cardinality(TokenStarts(text)) |->
        Glue(text, Nth(TokenStarts(text), k),
             TokenEnd(text, Nth(TokenStarts(text), k)))]
    \o <<EndMarker>>

Tokenized == pc = "tokenized"

C21_TokenizerSplits ==
    Tokenized =>
        /\ input_tokens = ExpectedTokens(input_string)
        /\ Last(input_tokens) = EndMarker
        /\ input_string = <<>> => input_tokens = <<EndMarker>>

\* A tokenized string with a run of two characters, a special character
\* right after a run, and a blank.
C21_Witness ==
    /\ Tokenized
    /\ \E i \in 1..(Len(input_string) - 1) :
           InRun(input_string[i]) /\ InRun(input_string[i + 1])
    /\ \E i \in 1..(Len(input_string) - 1) :
           InRun(input_string[i]) /\ input_string[i + 1] \in SingleCharacterTokens
    /\ \E i \in 1..Len(input_string) : input_string[i] \in Blanks
    /\ Len(input_tokens) = 3

----------------------------------------------------------------------------
(* The arithmetic grammar G1 on the input "id".                            *)

G1OnId == grammar_id = "G1" /\ Words = <<"id">>

ShiftOrReduce(step) == IsShift(step) \/ IsReduce(step)

\* The AST is the single chain E -> T -> F -> id rooted at E: four nodes,
\* each non-terminal node with the next one as its only child.
IsChainFromE ==
    /\ Cardinality(DOMAIN ast.nodes) = 4
    /\ ast.root \in DOMAIN ast.nodes
    /\ \E e, t, f, id \in DOMAIN ast.nodes :
           /\ ast.root = e
           /\ ast.nodes[e].symbol = "E" /\ ast.nodes[e].children = <<t>>
           /\ ast.nodes[t].symbol = "T" /\ ast.nodes[t].children = <<f>>
           /\ ast.nodes[f].symbol = "F" /\ ast.nodes[f].children = <<id>>
           /\ ast.nodes[id].symbol = "id" /\ ast.nodes[id].children = <<>>
           /\ ast.nodes[id].symbol_type = "terminal"

\* C23 as stated: for G1 and the input id the trace is exactly 5
\* shift/reduce steps followed by an accept step, and the AST is the chain
\* E -> T -> F -> id rooted at E.
C23_FiveStepsThenAccept ==
    G1OnId =>
        /\ ParseOver =>
               /\ Len(steps) = 6
               /\ \A i \in 1..5 : ShiftOrReduce(steps[i])
               /\ EndsWithAccept
        /\ pc = "done" => IsChainFromE

\* C23, with the count of the steps the driver takes: for G1 and the input
\* id the trace is exactly 4 shift/reduce steps (shift id, reduce by
\* F -> id, by T -> F, by E -> T) followed by an accept step, and the AST is
\* the chain E -> T -> F -> id rooted at E.
C23_FourStepsThenAccept ==
    G1OnId =>
        /\ ParseOver =>
               /\ Len(steps) = 5
               /\ IsShift(steps[1]) /\ steps[1].current_token = "id"
               /\ \A i \in 2..4 : IsReduce(steps[i])
               /\ productions[steps[2].action.target + 1] = Prod("F", <<"id">>)
               /\ productions[steps[3].action.target + 1] = Prod("T", <<"F">>)
               /\ productions[steps[4].action.target + 1] = Prod("E", <<"T">>)
               /\ EndsWithAccept
        /\ pc = "done" => IsChainFromE

\* The parse of id under G1 is over and its AST is at hand.
C23_Witness == G1OnId /\ pc = "done" /\ EndsWithAccept /\ ast.root # NoneInt

----------------------------------------------------------------------------
(* C24: in every trace an accept step or an error step occurs only as the  *)
(* last step: once an accept step has been emitted the parse halts and no  *)
(* step of any kind is appended after it.                                  *)

IsAccept(step) == step.action.action_type = Str("accept")

IsError(step) == step.action.action_type = Str("error")

C24_HaltingStepIsLast ==
    \A i \in 1..Len(steps) :
        (IsAccept(steps[i]) \/ IsError(steps[i])) => i = Len(steps)

----------------------------------------------------------------------------
(* C25: at every step boundary of a parse under a table without conflicts  *)
(* the height of the AST-node stack equals the length of the parser stack  *)
(* minus 1 (the bottom frame (0, "") has no AST node), also after          *)
(* reductions by productions with an empty right-hand side.                *)

Parsing == pc \in {"parsing", "parsed", "done"}

C25_AstStackFollowsStack ==
    Parsing =>
        /\ stack # <<>>
        /\ stack[1] = StackEntry(0, "")
        /\ Len(ast_stack) = Len(stack) - 1
        /\ \A i \in 1..Len(ast_stack) :
               /\ ast_stack[i] \in DOMAIN ast_nodes
               /\ ast_nodes[ast_stack[i]].symbol = stack[i + 1].symbol

\* A parse that has reduced by an empty right-hand side, by a right-hand
\* side of two symbols and has shifted, with nodes on the AST stack.
C25_Witness ==
    /\ pc = "parsing"
    /\ Len(ast_stack) >= 2
    /\ \E i \in 1..Len(steps) : IsReduce(steps[i]) /\ RhsLength(steps[i]) = 0
    /\ \E i \in 1..Len(steps) : IsReduce(steps[i]) /\ RhsLength(steps[i]) >= 2
    /\ \E i \in 1..Len(steps) : IsShift(steps[i])

----------------------------------------------------------------------------
(* C28: each reduce step by production p: B -> X1 ... Xk creates exactly   *)
(* one new non-terminal node labelled B with production_used = p, whose    *)
(* children are the k node ids popped from the top of the AST stack in     *)
(* bottom-to-top order, the i-th child carrying the symbol Xi; for k = 0   *)
(* the children list is empty and nothing is popped.                       *)

\* The step the iteration of the loop appends to the trace.
NewStep == steps'[Len(steps) + 1]

ReduceNodeLaw ==
    LET production == productions[NewStep.action.target + 1]
        k == Len(production.rhs)
        height == Len(ast_stack)
        node == NewStep.ast_nodes[1]
    IN /\ Len(NewStep.ast_nodes) = 1
       /\ node.id = next_node_id
       /\ node.id \notin DOMAIN ast_nodes
       /\ DOMAIN ast_nodes' = DOMAIN ast_nodes \cup {node.id}
       /\ ast_nodes'[node.id] = node
       /\ node.symbol = production.lhs
       /\ node.symbol_type = "non_terminal"
       /\ node.production_used = NewStep.action.target
       /\ height >= k
       /\ node.children = SubSeq(ast_stack, height - k + 1, height)
       /\ \A i \in 1..k :
              ast_nodes[node.children[i]].symbol = production.rhs[i]
       /\ ast_stack' = Append(SubSeq(ast_stack, 1, height - k), node.id)
       /\ k = 0 => /\ node.children = <<>>
                   /\ ast_stack' = Append(ast_stack, node.id)

C28_ReduceCreatesNode ==
    [][(pc = "parsing" /\ Len(steps') > Len(steps) /\ IsReduce(NewStep))
          => ReduceNodeLaw]_vars

\* An accepted parse with a reduce that made a node of two or more children
\* and a reduce by an empty right-hand side that made a node of none.
C28_Witness ==
    /\ ParseOver
    /\ EndsWithAccept
    /\ \E i \in 1..Len(steps) :
           /\ IsReduce(steps[i])
           /\ Len(steps[i].ast_nodes[1].children) >= 2
    /\ \E i \in 1..Len(steps) :
           /\ IsReduce(steps[i])
           /\ RhsLength(steps[i]) = 0
           /\ steps[i].ast_nodes[1].children = <<>>

----------------------------------------------------------------------------
(* C30: the two conflict detectors agree: Automaton.find_conflicts()       *)
(* returns an empty list if and only if the ParsingTable built from the    *)
(* automaton has an empty conflicts list, so that is_lr1_grammar() is true *)
(* exactly when a ParserEngine can be constructed.                         *)

TableDecided == TableBuilt \/ Exported \/ EngineDecided

C30_DetectorsAgree ==
    /\ TableDecided => ((found_conflicts = <<>>) <=> (conflicts = <<>>))
    /\ TableBuilt => (is_lr1_grammar <=> is_valid_table)
    /\ EngineDecided => (engine = "ready" <=> found_conflicts = <<>>)

\* Both detectors report, each a reduce-reduce conflict only, and the engine
\* is refused.
C30_Witness ==
    /\ pc = "rejected"
    /\ found_conflicts # <<>>
    /\ conflicts # <<>>
    /\ \A i \in 1..Len(found_conflicts) :
           found_conflicts[i].type = "reduce_reduce"
    /\ \A i \in 1..Len(conflicts) :
           conflicts[i].conflict_type = "reduce_reduce"

----------------------------------------------------------------------------
(* Closure as the least fixed point of its rule.                           *)

\* The items the rule asks for, given the items J: for [A -> a.Bb, x] in J
\* with B a non-terminal, [B -> .g, t] for each production B -> g and each
\* terminal t in FIRST(b x), with F the FIRST sets of the non-terminals.
ClosureRule(J, F) ==
    UNION {{Item(productions[p], 0, t) :
               p \in {q \in 1..Len(productions) :
                         productions[q].lhs = symbol_after_dot(item)},
               t \in SeqFirst(BetaTail(item) \o <<item.lookahead>>, F) \ {Eps}} :
           item \in {x \in J : symbol_after_dot(x) \in NonTerminals}}

RECURSIVE LeastClosureFrom(_, _)
LeastClosureFrom(J, F) ==
    IF ClosureRule(J, F) \subseteq J THEN J
    ELSE LeastClosureFrom(J \cup ClosureRule(J, F), F)

\* The least superset of I closed under the rule.
LeastClosure(I) == LeastClosureFrom(I, LeastFirst)

\* The items a state was made from: the closure was taken of these.
Kernel(state) ==
    {item \in state :
        item.dot_position > 0 \/ item = Item(productions[1], 0, EndMarker)}

AutomatonBuilt == pc = "conflicts"

\* C26: ItemSet.closure(I) returns the least superset of I such that for
\* every item [A -> a.Bb, x] in it with B a non-terminal, every production
\* B -> g and every terminal t in FIRST(b x), the item [B -> .g, t] is in
\* it: every state of the automaton, the closure of its kernel, is that set.
C26_ClosureIsLeastFixedPoint ==
    AutomatonBuilt =>
        \A k \in 1..Len(states) : states[k] = LeastClosure(Kernel(states[k]))

----------------------------------------------------------------------------
(* C27: in every constructed automaton state 0 is the closure of           *)
(* {[S' -> .S, $]}; no two states hold equal item sets and state_map maps  *)
(* states[i] to i; for every state j and every symbol X that follows a dot *)
(* in some item of states[j] exactly one transition (j, X, k) is recorded, *)
(* with states[k] the closure of those items with the dot advanced over X; *)
(* and for a symbol X that follows no dot in states[j], goto returns None  *)
(* and no transition on X leaves j.                                        *)

Symbols == Terminals \cup NonTerminals

\* The positions of the recorded transitions from state j on symbol X.
TransitionsOn(j, X) ==
    {n \in 1..Len(transitions) :
        transitions[n].from_state = j /\ transitions[n].symbol = X}

InitialStateIsClosure ==
    /\ Len(states) >= 1
    /\ states[1] = LeastClosure({Item(productions[1], 0, EndMarker)})

StatesAreDistinct ==
    /\ \A i, j \in 1..Len(states) : states[i] = states[j] => i = j
    /\ DOMAIN state_map = Range(states)
    /\ \A i \in 1..Len(states) : state_map[states[i]] = i - 1

OneTransitionPerSymbol ==
    \A j \in StateIndices :
        \A X \in Symbols :
            IF \E item \in states[j + 1] : symbol_after_dot(item) = X
            THEN /\ Cardinality(TransitionsOn(j, X)) = 1
                 /\ \A n \in TransitionsOn(j, X) :
                        /\ transitions[n].to_state \in StateIndices
                        /\ states[transitions[n].to_state + 1] =
                               LeastClosure(GotoKernel(states[j + 1], X))
            ELSE /\ GotoKernel(states[j + 1], X) = {}
                 /\ get_transition(j, X) = NoneInt
                 /\ TransitionsOn(j, X) = {}

C27_AutomatonInvariants ==
    AutomatonBuilt =>
        /\ InitialStateIsClosure
        /\ StatesAreDistinct
        /\ OneTransitionPerSymbol

----------------------------------------------------------------------------
(* C29: closure computation and the construction of the canonical          *)
(* collection terminate for every finite grammar, grammars with a cycle of *)
(* unit productions (A -> B, B -> C, C -> A) or a self-reference (A -> A)  *)
(* included, and return a collection with at least one state.              *)

Building == pc = "automaton"

\* What bounds the work of the worklist loop: the states are pairwise
\* distinct item sets, and the worklist holds indices of states, each once,
\* of states no transition has been recorded from yet.
WorkIsBounded ==
    Building =>
        /\ Len(states) >= 1
        /\ \A i, j \in 1..Len(states) : states[i] = states[j] => i = j
        /\ \A i, j \in 1..Len(worklist) : worklist[i] = worklist[j] => i = j
        /\ \A i \in 1..Len(worklist) :
               /\ worklist[i] \in StateIndices
               /\ get_transitions_from_state(worklist[i]) = <<>>

BuiltWithStates == AutomatonBuilt => Len(states) >= 1 /\ worklist = <<>>

C29_ConstructionTerminates ==
    /\ [](WorkIsBounded /\ BuiltWithStates)
    /\ Building ~> AutomatonBuilt

HasUnitCycle ==
    \E p, q, r \in 1..Len(productions) :
        /\ productions[p].rhs = <<productions[q].lhs>>
        /\ productions[q].rhs = <<productions[r].lhs>>
        /\ productions[r].rhs = <<productions[p].lhs>>
        /\ Cardinality({productions[p].lhs, productions[q].lhs,
                        productions[r].lhs}) = 3

\* The automaton of a grammar with a cycle of three unit productions is
\* finished, with several states.
C29_Witness == AutomatonBuilt /\ HasUnitCycle /\ Len(states) >= 2

----------------------------------------------------------------------------
(* C22: two threads that query one shared grammar.                         *)

\* Both threads have left their call of first.
ThreadsEnded == pc = "threads" /\ \A t \in Threads : threads[t].status # "running"

\* The caches of a grammar nobody has queried yet.
FreshCaches == [seq |-> <<>>, nt |-> <<>>, prog |-> {}]

\* The queries of the threads a and b run one after the other, a first: what
\* each returns and the caches they leave.
OneAfterTheOther(a, b) ==
    LET qa == first(FreshCaches, threads[a].query)
        qb == first(qa.c, threads[b].query)
    IN [res |-> (a :> qa.res) @@ (b :> qb.res), c |-> qb.c]

\* The threads ended as the sequential run s does.
EndedAs(s) ==
    /\ \A t \in Threads : /\ threads[t].status = "returned"
                          /\ threads[t].result = s.res[t]
    /\ first_cache = s.c.seq
    /\ first_nt_cache = s.c.nt
    /\ first_in_progress = s.c.prog

\* C22: under every interleaving of two threads that call first on one
\* shared grammar, each call returns the set it returns when the two calls
\* run one after the other, and the memo caches end with the contents that
\* sequential run leaves.
C22_ConcurrentQueriesAsSequential ==
    ThreadsEnded =>
        \/ EndedAs(OneAfterTheOther(1, 2))
        \/ EndedAs(OneAfterTheOther(2, 1))

====
